---- MODULE Spec2Model ----
(***************************************************************************)
(* JIT enablement engine: the knowledge-base curation tools (MCP server),  *)
(* the rep directory, the CRM webhook continuation of the webhook server   *)
(* and the CRM payload normaliser.                                         *)
(*                                                                         *)
(* Strings whose characters the code inspects (toLowerCase, includes) are  *)
(* sequences of one-character strings; all other strings are TLA+ strings. *)
(***************************************************************************)
EXTENDS Integers, Sequences, FiniteSets, TLC

VARIABLES
  kb,        \* knowledge-base.json
  issued,    \* history: the ids generateId has handed out so far
  lastOp,    \* history: the last curation tool call and what it returned
  repDir,    \* rep-directory.json: the reps array
  lastRepOp, \* history: the last operation that wrote the rep directory
  cfg,       \* the Config the webhook server was created with
  runs,      \* the CRM webhook requests and their detached continuations
  counter,   \* _counter of the delivery id generator
  feedbackLog, \* feedback-log.json
  cached,    \* history: the last successful platform lookup not yet overwritten by a push
  rawInput,  \* the body of a CRM webhook request
  parsed,    \* what parseCrmPayload made of it
  extracted, \* what extractStage made of it
  templateArgs,   \* the deal and the knowledge base given to the content builders
  templateResult, \* what the content builder called made of them
  feedbackReq,    \* a feedback webhook request: its body, parse result and response
  syncReq,        \* the last request to the sync endpoints and its response
  keyboards       \* the delivered Telegram messages whose keyboard is being or was replaced

kbVars == <<kb, issued, lastOp>>
repVars == <<repDir, lastRepOp>>
srvVars == <<cfg, runs, counter, feedbackLog, cached>>
parseVars == <<rawInput, parsed, extracted>>
contentVars == <<templateArgs, templateResult>>
feedbackVars == <<feedbackReq, keyboards>>
syncVars == <<syncReq>>
fnVars == <<parseVars, contentVars, feedbackVars, syncVars>>

vars ==
  <<kb, issued, lastOp, repDir, lastRepOp, cfg, runs, counter, feedbackLog, cached,
    rawInput, parsed, extracted, templateArgs, templateResult, feedbackReq, syncReq,
    keyboards>>

(***************************************************************************)
(* Bounds of the model                                                     *)
(***************************************************************************)
MaxEntries == 2      \* entries per knowledge-base collection
MaxSeqNum == 3       \* highest sequence number generateId may hand out
MaxReps == 2         \* entries of the rep directory
MaxRuns == 2         \* CRM webhook requests received by the server
MaxRequests == 3     \* CRM webhook requests whose appends to the feedback log interleave

(***************************************************************************)
(* Strings                                                                 *)
(***************************************************************************)
ToLowerChar(c) ==
  CASE c = "A" -> "a"
    [] c = "B" -> "b"
    [] c = "N" -> "n"
    [] c = "U" -> "u"
    [] OTHER -> c

ToLowerCase(s) == [i \in DOMAIN s |-> ToLowerChar(s[i])]

\* String.prototype.includes
Includes(hay, needle) ==
  \E i \in 0..(Len(hay) - Len(needle)) :
    SubSeq(hay, i + 1, i + Len(needle)) = needle

\* Array.prototype.findIndex, 1-based, given for each element whether the callback
\* accepts it; 0 when it accepts none
FindIndex(hits) ==
  IF \E i \in DOMAIN hits : hits[i]
    THEN CHOOSE i \in DOMAIN hits : hits[i] /\ \A j \in 1..(i - 1) : ~hits[j]
    ELSE 0

\* Array.prototype.splice(idx, 1)
RemoveAt(seq, idx) == SubSeq(seq, 1, idx - 1) \o SubSeq(seq, idx + 1, Len(seq))

(***************************************************************************)
(* Identifier generator                                                     *)
(***************************************************************************)
RECURSIVE ToDigits(_)
\* String(n): the decimal digits of n
ToDigits(n) == IF n < 10 THEN <<n>> ELSE ToDigits(n \div 10) \o <<n % 10>>

RECURSIVE PadStart(_, _)
\* padStart(len, "0"): never shortens
PadStart(ds, len) == IF Len(ds) >= len THEN ds ELSE PadStart(<<0>> \o ds, len)

RECURSIVE ParseInt(_)
\* parseInt(digits, 10)
ParseInt(ds) ==
  IF ds = <<>> THEN 0 ELSE ParseInt(SubSeq(ds, 1, Len(ds) - 1)) * 10 + ds[Len(ds)]

\* an id "<prefix>-<digits>"
MkId(prefix, ds) == [prefix |-> prefix, digits |-> ds]

RECURSIVE MaxNum(_, _)
\* the reduce of generateId: the highest number among the ids matching ^prefix-(\d+)$
MaxNum(prefix, existing) ==
  IF existing = <<>> THEN 0
  ELSE LET max == MaxNum(prefix, SubSeq(existing, 1, Len(existing) - 1))
           item == existing[Len(existing)]
           match == item.id.prefix = prefix /\ Len(item.id.digits) > 0
       IN IF match /\ ParseInt(item.id.digits) > max
            THEN ParseInt(item.id.digits) ELSE max

GenerateIdByLength(prefix, existing) ==
  MkId(prefix, PadStart(ToDigits(Len(existing) + 1), 3))

GenerateId(prefix, existing) ==
  MkId(prefix, PadStart(ToDigits(MaxNum(prefix, existing) + 1), 3))

(***************************************************************************)
(* Knowledge base file                                                      *)
(***************************************************************************)
EMPTY_KB ==
  [ case_studies |-> <<>>,
    competitor_positioning |-> <<>>,
    has_competitor_positioning |-> TRUE,
    objection_library |-> <<>>,
    has_objection_library |-> TRUE,
    methodology |-> FALSE,
    meta |-> [entry_count |-> 0, configured |-> "false"] ]

\* readKB of a file holding a knowledge base with competitor_positioning:
\* a missing objection_library is read as []
ReadKB(file) ==
  [file EXCEPT !.objection_library = IF file.has_objection_library THEN @ ELSE <<>>,
               !.has_objection_library = TRUE]

\* readKB throws when the file has no competitor_positioning array
ReadKBThrows(file) == ~file.has_competitor_positioning

TotalEntries(k) ==
  Len(k.case_studies) + Len(k.competitor_positioning) + Len(k.objection_library)
    + (IF k.methodology THEN 1 ELSE 0)

\* the file writeKB leaves
WriteKB(k) ==
  [k EXCEPT !.has_objection_library = TRUE,
            !.meta = [entry_count |-> TotalEntries(k),
                      configured |-> IF TotalEntries(k) > 0 THEN "true" ELSE "false"]]

(***************************************************************************)
(* Curation tools                                                           *)
(***************************************************************************)
CompanyNames == { <<"A">>, <<"a", "b">> }
CompetitorNames == { <<"B">> }
ObjectionTexts == { <<"a">> }
Categories == { <<"b">> }

NoId == MkId("", <<>>)

IdInputs ==
  { MkId(p, PadStart(ToDigits(n), 3)) : p \in {"cs", "cp", "ob"}, n \in 1..MaxSeqNum }
    \cup { MkId("cs", <<1>>) }

NameInputs == { <<"a">>, <<"b">> }

Counts(k) ==
  [cs |-> Len(k.case_studies), cp |-> Len(k.competitor_positioning),
   ob |-> Len(k.objection_library)]

Returned(tool, id, k) == [tool |-> tool, id |-> id, wrote |-> Counts(k)]

AddCaseStudy ==
  \E company \in CompanyNames :
    LET k == ReadKB(kb)
        id == GenerateId("cs", k.case_studies)
        k2 == [k EXCEPT !.case_studies = Append(@, [id |-> id, name |-> company])]
    IN /\ Len(k.case_studies) < MaxEntries
       /\ ParseInt(id.digits) <= MaxSeqNum
       /\ kb' = WriteKB(k2)
       /\ issued' = issued \cup {id}
       /\ lastOp' = Returned("add_case_study", id, k2)

AddCompetitor ==
  \E competitor \in CompetitorNames :
    LET k == ReadKB(kb)
        id == GenerateId("cp", k.competitor_positioning)
        k2 == [k EXCEPT !.competitor_positioning =
                          Append(@, [id |-> id, name |-> competitor])]
    IN /\ Len(k.competitor_positioning) < MaxEntries
       /\ ParseInt(id.digits) <= MaxSeqNum
       /\ kb' = WriteKB(k2)
       /\ issued' = issued \cup {id}
       /\ lastOp' = Returned("add_competitor", id, k2)

AddObjection ==
  \E objection \in ObjectionTexts, category \in Categories :
    LET k == ReadKB(kb)
        id == GenerateId("ob", k.objection_library)
        k2 == [k EXCEPT !.objection_library =
                          Append(@, [id |-> id, name |-> objection, category |-> category])]
    IN /\ Len(k.objection_library) < MaxEntries
       /\ ParseInt(id.digits) <= MaxSeqNum
       /\ kb' = WriteKB(k2)
       /\ issued' = issued \cup {id}
       /\ lastOp' = Returned("add_objection", id, k2)

SetMethodology ==
  LET k2 == [ReadKB(kb) EXCEPT !.methodology = TRUE]
  IN /\ kb' = WriteKB(k2)
     /\ lastOp' = Returned("set_methodology", NoId, k2)
     /\ UNCHANGED issued

\* remove_entry with an id: the entry with that id goes from every collection holding it
RemoveById(k, id) ==
  LET csIdx == FindIndex([i \in DOMAIN k.case_studies |-> k.case_studies[i].id = id])
      cpIdx == FindIndex([i \in DOMAIN k.competitor_positioning |->
                            k.competitor_positioning[i].id = id])
      obIdx == FindIndex([i \in DOMAIN k.objection_library |->
                            k.objection_library[i].id = id])
  IN [k EXCEPT !.case_studies = IF csIdx > 0 THEN RemoveAt(@, csIdx) ELSE @,
               !.competitor_positioning = IF cpIdx > 0 THEN RemoveAt(@, cpIdx) ELSE @,
               !.objection_library = IF obIdx > 0 THEN RemoveAt(@, obIdx) ELSE @]

\* remove_entry with a name: the first match, case studies before competitors
\* before objections
RemoveByName(k, name) ==
  LET n == ToLowerCase(name)
      csIdx == FindIndex([i \in DOMAIN k.case_studies |->
                            Includes(ToLowerCase(k.case_studies[i].name), n)])
      cpIdx == FindIndex([i \in DOMAIN k.competitor_positioning |->
                            Includes(ToLowerCase(k.competitor_positioning[i].name), n)])
      obIdx == FindIndex([i \in DOMAIN k.objection_library |->
                            \/ Includes(ToLowerCase(k.objection_library[i].name), n)
                            \/ Includes(ToLowerCase(k.objection_library[i].category), n)])
  IN IF csIdx > 0 THEN [k EXCEPT !.case_studies = RemoveAt(@, csIdx)]
     ELSE IF cpIdx > 0 THEN [k EXCEPT !.competitor_positioning = RemoveAt(@, cpIdx)]
     ELSE IF obIdx > 0 THEN [k EXCEPT !.objection_library = RemoveAt(@, obIdx)]
     ELSE k

RemoveEntry ==
  \E id \in IdInputs \cup {NoId}, name \in NameInputs \cup {<<>>} :
    LET k == ReadKB(kb)
        k2 == IF id # NoId THEN RemoveById(k, id)
              ELSE IF name # <<>> THEN RemoveByName(k, name)
              ELSE k
        removed == k2 # k
    IN /\ kb' = IF removed THEN WriteKB(k2) ELSE kb
       /\ lastOp' = IF removed THEN Returned("remove_entry", NoId, k2)
                    ELSE [tool |-> "remove_entry_none", id |-> NoId, wrote |-> lastOp.wrote]
       /\ UNCHANGED issued

(***************************************************************************)
(* Rep directory                                                            *)
(***************************************************************************)
RepEntry(email, name, slack, telegram, at, via) ==
  [email |-> email, name |-> name, slack_id |-> slack, telegram_chat_id |-> telegram,
   registered_at |-> at, registered_via |-> via]

SameEmail(a, b) == ToLowerCase(a) = ToLowerCase(b)

\* the index findRepByEmail and upsertRep look at: the first entry with that email,
\* compared case-insensitively; 0 when there is none
RepIndex(reps, email) ==
  FindIndex([i \in DOMAIN reps |-> SameEmail(reps[i].email, email)])

\* rep?.slack_id of findRepByEmail's result ("" when there is no entry)
DirectorySlackId(reps, email) ==
  IF RepIndex(reps, email) = 0 THEN "" ELSE reps[RepIndex(reps, email)].slack_id

\* rep?.telegram_chat_id of findRepByEmail's result
DirectoryTelegramId(reps, email) ==
  IF RepIndex(reps, email) = 0 THEN "" ELSE reps[RepIndex(reps, email)].telegram_chat_id

UpsertRepReplacingAll(reps, rep) == <<rep>>

\* the reps array upsertRep writes
UpsertRep(reps, rep) ==
  LET idx == RepIndex(reps, rep.email)
  IN IF idx > 0
       THEN [reps EXCEPT ![idx] =
               [rep EXCEPT !.slack_id = IF rep.slack_id # "" THEN @ ELSE reps[idx].slack_id,
                           !.telegram_chat_id =
                             IF rep.telegram_chat_id # "" THEN @
                             ELSE reps[idx].telegram_chat_id]]
       ELSE Append(reps, rep)

\* the reps array removeRep leaves
RemoveRepFrom(reps, email) == SelectSeq(reps, LAMBDA r : ~SameEmail(r.email, email))

Emails == { <<"a">>, <<"A">>, <<"b">> }
RepNames == { "", "N1" }
SlackIds == { "", "U1" }
TelegramIds == { "", "T1" }
Timestamps == { "t1" }

RepOp(op, rep) == [op |-> op, rep |-> rep]

NoRep == RepEntry(<<>>, "", "", "", "", "")

\* add_rep tool
AddRep(names, slackIds, telegramIds, times) ==
  \E email \in Emails, name \in names, slack \in slackIds, telegram \in telegramIds,
     at \in times :
    LET rep == RepEntry(email, name, slack, telegram, at, "manual")
    IN /\ Len(UpsertRep(repDir, rep)) <= MaxReps
       /\ repDir' = UpsertRep(repDir, rep)
       /\ lastRepOp' = RepOp("upsert", rep)

\* remove_rep tool: the file is written only when an entry went
RemoveRep ==
  \E email \in Emails :
    /\ Len(RemoveRepFrom(repDir, email)) < Len(repDir)
    /\ repDir' = RemoveRepFrom(repDir, email)
    /\ lastRepOp' = RepOp("remove", RepEntry(email, "", "", "", "", ""))

\* the directories a sync push carries: what a curation server's own file can hold
RECURSIVE Directories(_, _)
Directories(entries, n) ==
  IF n = 0 THEN { <<>> }
  ELSE LET shorter == Directories(entries, n - 1)
       IN shorter \cup
          { Append(d, e) : d \in { x \in shorter : Len(x) = n - 1 }, e \in entries }

NoDuplicateEmails(reps) ==
  \A i, j \in DOMAIN reps : i # j => ~SameEmail(reps[i].email, reps[j].email)

\* entries registered earlier, under another name and id
SyncEntries ==
  { RepEntry(e, "N0", s, "", "t0", "bot_start") : e \in Emails, s \in {"", "U0"} }

SyncDirectories == { d \in Directories(SyncEntries, MaxReps) : NoDuplicateEmails(d) }

\* PUT /api/rep-directory with the configured secret and a body of the expected
\* shape: the file becomes the body
SyncPutRepDirectory(bodies) ==
  \E body \in bodies :
    /\ repDir' = body
    /\ lastRepOp' = RepOp("sync", NoRep)

(***************************************************************************)
(* Webhook server: configuration, sync endpoint for the knowledge base      *)
(***************************************************************************)
Config(channel, slackBotToken, telegramBotToken, anthropicApiKey, pmmTelegramChatId) ==
  [channel |-> channel, slackBotToken |-> slackBotToken,
   telegramBotToken |-> telegramBotToken, anthropicApiKey |-> anthropicApiKey,
   pmmTelegramChatId |-> pmmTelegramChatId, pmmSlackId |-> "", syncSecret |-> "S"]

\* a configuration with SYNC_SECRET set to another value, or not set
WithSyncSecret(config, secret) == [config EXCEPT !.syncSecret = secret]

\* a configuration with PMM_SLACK_ID set
WithPmmSlackId(config, id) == [config EXCEPT !.pmmSlackId = id]

\* the configurations createApp is given; loadServerConfig yields the ones whose
\* channel has its bot token
Configs ==
  { WithPmmSlackId(Config("slack", "xoxb", "", "sk", ""), "UP"),
    Config("slack", "xoxb", "", "", ""),
    Config("slack", "", "", "", ""),
    Config("telegram", "", "tg", "", "P1"),
    Config("telegram", "", "tg", "sk", "") }

\* knowledge bases a curation server pushes after a writeKB: one case study, or one
\* competitor and no case study
PushedKBs ==
  { WriteKB([EMPTY_KB EXCEPT !.case_studies =
               <<[id |-> MkId("cs", <<0, 0, 1>>), name |-> <<"A">>]>>]),
    WriteKB([EMPTY_KB EXCEPT !.competitor_positioning =
               <<[id |-> MkId("cp", <<0, 0, 1>>), name |-> <<"B">>]>>]) }

\* bodies PUT /api/kb accepts: a case_studies array and a _meta object is all it
\* asks for, so also a file never marked configured and one without
\* competitor_positioning
KbBodies ==
  PushedKBs
    \cup { [k EXCEPT !.meta.configured = "false"] :
             k \in { b \in PushedKBs : Len(b.case_studies) > 0 } }
    \cup { [k EXCEPT !.has_competitor_positioning = FALSE] :
             k \in { b \in PushedKBs : Len(b.case_studies) > 0 } }

\* PUT /api/kb with the configured secret and a body of the expected shape: the
\* file becomes the body
SyncPutKb(bodies) ==
  \E body \in bodies :
    /\ kb' = body
    /\ UNCHANGED <<issued, lastOp>>

(***************************************************************************)
(* Rep identity resolution                                                  *)
(***************************************************************************)
RECURSIVE Text(_)
\* the string made of the characters
Text(chars) == IF chars = <<>> THEN "" ELSE Head(chars) \o Text(Tail(chars))

\* the resolution fields of a DealContext as parseCrmPayload leaves them
Deal(rep_email, rep_slack_id) ==
  [rep_email |-> rep_email, rep_slack_id |-> rep_slack_id,
   identity_resolved |-> FALSE, resolution_method |-> "unresolved"]

Resolved(deal, id, method) ==
  [deal EXCEPT !.rep_slack_id = id, !.identity_resolved = TRUE,
               !.resolution_method = method]

ResolveRepIdentityDirectoryFirst(deal, reps) ==
  IF deal.rep_email # <<>> /\ DirectorySlackId(reps, deal.rep_email) # ""
    THEN Resolved(deal, DirectorySlackId(reps, deal.rep_email), "rep_directory")
  ELSE IF deal.rep_slack_id # ""
    THEN Resolved(deal, deal.rep_slack_id, "crm_field")
  ELSE IF deal.rep_email # <<>>
    THEN Resolved(deal, Text(deal.rep_email), "email_fallback")
  ELSE [deal EXCEPT !.identity_resolved = FALSE, !.resolution_method = "unresolved"]

ResolveRepIdentity(deal, reps) ==
  IF deal.rep_slack_id # ""
    THEN Resolved(deal, deal.rep_slack_id, "crm_field")
  ELSE IF deal.rep_email # <<>> /\ DirectorySlackId(reps, deal.rep_email) # ""
    THEN Resolved(deal, DirectorySlackId(reps, deal.rep_email), "rep_directory")
  ELSE IF deal.rep_email # <<>>
    THEN Resolved(deal, Text(deal.rep_email), "email_fallback")
  ELSE [deal EXCEPT !.identity_resolved = FALSE, !.resolution_method = "unresolved"]

\* resolveRepIdentity calls findRepByEmail only past the CRM id check
ReadsDirectory(deal) == deal.rep_slack_id = "" /\ deal.rep_email # <<>>

ResolveRepForTelegram(deal, reps) ==
  IF deal.rep_email = <<>>
    THEN [deal EXCEPT !.identity_resolved = FALSE, !.resolution_method = "unresolved"]
  ELSE IF DirectoryTelegramId(reps, deal.rep_email) # ""
    THEN Resolved(deal, DirectoryTelegramId(reps, deal.rep_email), "rep_directory_telegram")
  ELSE [deal EXCEPT !.identity_resolved = FALSE, !.resolution_method = "no_telegram_id"]

\* step 3c of the pipeline: the Telegram resolver and the fallback to the PMM's chat
TelegramStep(deal, reps) ==
  LET d == ResolveRepForTelegram(deal, reps)
  IN IF ~d.identity_resolved /\ cfg.pmmTelegramChatId # ""
       THEN Resolved(d, cfg.pmmTelegramChatId, "pmm_fallback")
       ELSE d

\* the entry resolveRepViaSlackApi caches for a successful lookup
LookupEntry(email, id, real_name, now) ==
  RepEntry(email, IF real_name # "" THEN real_name ELSE Text(email), id, "", now, "manual")

CacheLookupSkipped(reps, entry) == reps

CacheLookup(reps, entry) == UpsertRep(reps, entry)

(***************************************************************************)
(* CRM webhook and the enablement continuation                              *)
(***************************************************************************)
ClassifyStageIgnoringCaseAndPadding(stage) ==
  IF stage \in {"Proposal Sent", "Negotiation", "negotiation", " Negotiation"}
    THEN "enablement"
  ELSE IF stage \in {"Closed Won", "Closed Lost"} THEN "outcome"
  ELSE "skip"

ClassifyStage(stage) ==
  IF stage \in {"Proposal Sent", "Negotiation"} THEN "enablement"
  ELSE IF stage \in {"Closed Won", "Closed Lost"} THEN "outcome"
  ELSE "skip"

ContextGateConfiguredOnly(k) == k.meta.configured = "true"

ContextGate(k) == k.meta.configured = "true" /\ Len(k.case_studies) > 0

IdentityResolvedAlways(deal) == TRUE

\* the check of deal._identity_resolved that ends the continuation
IdentityResolved(deal) == deal.identity_resolved

NoKbSeen == [read |-> FALSE, configured |-> "false", case_studies |-> 0]

\* what a continuation keeps of the knowledge base it read
KbSeen(k) ==
  [read |-> TRUE, configured |-> k.meta.configured, case_studies |-> Len(k.case_studies)]

\* a request slot no CRM event has arrived for yet
\* no PMM notification has been built for the request
NoNotification ==
  [type |-> "none", deal_name |-> "", outcome |-> "", delivery_id |-> -1,
   case_studies |-> <<>>]

IdleRun ==
  [pc |-> "idle", stage |-> "", crm_id |-> "", deal |-> Deal(<<>>, ""),
   dirRead |-> FALSE, lookup |-> "none", lookupId |-> "", kbSeen |-> NoKbSeen,
   generated |-> "none", sent |-> "none", delivery_id |-> -1, out |-> "none",
   deal_name |-> "", started |-> {}, feedback_id |-> -1,
   response |-> [status |-> 0, body |-> "none"], events |-> <<>>,
   notification |-> NoNotification]

\* res.status(200).json({ received: true })
Respond(run) ==
  [run EXCEPT !.response = [status |-> 200, body |-> "received"],
              !.events = Append(@, "respond")]

\* the request has gone through one more step that parses, reads or writes a file,
\* or calls a platform
Did(run, step) == [run EXCEPT !.events = Append(@, step)]

DidIf(cond, run, step) == IF cond THEN Did(run, step) ELSE run

\* a continuation is started for the request
Start(run, continuation) == [run EXCEPT !.started = @ \cup {continuation}]

DoneAnsweringFailure(run, out) ==
  [run EXCEPT !.pc = "done", !.out = out,
              !.response = IF out \in {"kb_error", "claude_failed", "send_failed"}
                             THEN [status |-> 500, body |-> "error"] ELSE @]

\* the continuation has returned, or thrown into its own catch
Done(run, out) == [run EXCEPT !.pc = "done", !.out = out]

\* steps 6 and 7: a delivery id is generated and the message goes out on the channel
Send(run) ==
  [run EXCEPT !.delivery_id = counter,
              !.sent = IF cfg.channel = "telegram" /\ cfg.telegramBotToken # ""
                         THEN "telegram" ELSE "slack",
              !.pc = "send",
              !.events = Append(@, "send")]

\* processEnablementPipeline from step 3c up to its next await or its end
Pipeline(run, deal) ==
  LET d == IF cfg.channel = "telegram" THEN TelegramStep(deal, repDir) ELSE deal
      readsDir == cfg.channel = "telegram" /\ deal.rep_email # <<>>
      resolved == DidIf(readsDir, [run EXCEPT !.deal = d, !.dirRead = @ \/ readsDir],
                        "readRepDirectory")
  IN IF ~IdentityResolved(d) THEN Done(resolved, "unresolved")
     ELSE IF ReadKBThrows(kb) THEN Done(Did(resolved, "readKB"), "kb_error")
     ELSE LET k == ReadKB(kb)
              gated == Did([resolved EXCEPT !.kbSeen = KbSeen(k)], "readKB")
          IN IF ~ContextGate(k) THEN Done(gated, "blocked")
             ELSE IF cfg.anthropicApiKey # ""
               THEN Did([gated EXCEPT !.generated = "prompt", !.pc = "claude"],
                        "callClaude")
             ELSE Send(Did([gated EXCEPT !.generated = "template"],
                           "buildTemplateEnablement"))

\* generateDeliveryId post-increments _counter
CounterAfter(run) == IF run.pc = "send" THEN counter + 1 ELSE counter

EMPTY_LOG ==
  [deliveries |-> <<>>, feedback |-> <<>>,
   meta |-> [total_deliveries |-> 0, total_feedback |-> 0]]

WriteFeedbackLog(log) ==
  [log EXCEPT !.meta = [total_deliveries |-> Len(log.deliveries),
                        total_feedback |-> Len(log.feedback)]]

AppendDelivery(log, entry) ==
  WriteFeedbackLog([log EXCEPT !.deliveries = Append(@, entry)])

AppendFeedbackOverDeliveries(log, entry) ==
  WriteFeedbackLog([EMPTY_LOG EXCEPT !.feedback = Append(log.feedback, entry)])

AppendFeedback(log, entry) ==
  WriteFeedbackLog([log EXCEPT !.feedback = Append(@, entry)])

\* processEnablementPipeline from its start up to its first await or its end
ProcessEnablementPipeline(run, email, crmId, name) ==
  LET deal == ResolveRepIdentity(Deal(email, crmId), repDir)
      parsedRun == Did([run EXCEPT !.crm_id = crmId, !.deal_name = name], "parseCrmPayload")
      started == DidIf(ReadsDirectory(Deal(email, crmId)),
                       [parsedRun EXCEPT !.deal = deal,
                                         !.dirRead = ReadsDirectory(Deal(email, crmId))],
                       "readRepDirectory")
  IN IF /\ cfg.channel = "slack"
        /\ deal.resolution_method = "email_fallback"
        /\ cfg.slackBotToken # ""
       THEN Did([started EXCEPT !.pc = "lookup", !.lookup = "pending"], "lookupByEmail")
     ELSE Pipeline(started, deal)

\* the deliveries logged for a deal name, in log order
Reverse(list) == [i \in 1..Len(list) |-> list[Len(list) + 1 - i]]

MatchingDeliveriesLatestFirst(log, name) ==
  Reverse(SelectSeq(log.deliveries, LAMBDA d : d.deal_name = name))

MatchingDeliveries(log, name) == SelectSeq(log.deliveries, LAMBDA d : d.deal_name = name)

\* the notification text by what it says: the outcome label, the deal, and of the
\* delivery given as context its id and the case studies it surfaced
BuildOutcomeNotification(name, stage, delivery) ==
  [type |-> "outcome", deal_name |-> name, outcome |-> stage,
   delivery_id |-> delivery.delivery_id,
   case_studies |-> delivery.case_studies_surfaced]

\* the PMM is notified of an outcome or a field signal over a channel that is set up
NotifiesPmm ==
  \/ cfg.channel = "telegram" /\ cfg.pmmTelegramChatId # ""
  \/ cfg.pmmSlackId # ""

\* the FeedbackEntry processOutcome writes for the first matching delivery
OutcomeEntry(r, name, stage, delivery) ==
  [id |-> counter,
   delivery_id |-> delivery.delivery_id,
   source |-> "outcome",
   value |-> IF stage = "Closed Won" THEN "closed_won" ELSE "closed_lost",
   rep_id |-> delivery.rep_id,
   deal_name |-> name,
   run |-> r]

\* processOutcome from its start up to its await of the PMM notification or its end
ProcessOutcome(run, name) ==
  LET read == Did(Did([run EXCEPT !.deal_name = name], "parseCrmPayload"),
                  "readFeedbackLog")
  IN IF Len(MatchingDeliveries(feedbackLog, name)) = 0
       THEN Done(read, "no_prior_enablement")
     ELSE LET logged ==
                Did([read EXCEPT !.feedback_id = counter,
                                 !.notification =
                                   BuildOutcomeNotification(
                                     name, run.stage,
                                     MatchingDeliveries(feedbackLog, name)[1])],
                    "appendFeedback")
          IN IF NotifiesPmm THEN Did([logged EXCEPT !.pc = "notify"], "notify")
             ELSE Done(logged, "outcome_logged")

\* POST /webhook/crm: acknowledged at once; then the stage is extracted and
\* classified, and the continuation the class asks for runs up to its first await
CrmWebhook(stages, emails, crmIds, names) ==
  \E r \in DOMAIN runs, stage \in stages, email \in emails, crmId \in crmIds,
     name \in names :
    LET acked == Respond([IdleRun EXCEPT !.stage = stage])
        req == Did(acked, "extractStage")
        stageType == ClassifyStage(stage)
        enablement == IF stageType = "enablement"
                        THEN ProcessEnablementPipeline(Start(req, "enablement"),
                                                       email, crmId, name)
                        ELSE req
        outcome == IF stageType = "outcome"
                     THEN ProcessOutcome(Start(enablement, "outcome"), name)
                     ELSE enablement
        next == IF stageType = "skip" THEN Done(req, "skipped") ELSE outcome
    IN /\ runs[r].pc = "idle"
       /\ \A q \in 1..(r - 1) : runs[q].pc # "idle"
       /\ runs' = [runs EXCEPT ![r] = next]
       /\ counter' = IF next.feedback_id # -1 THEN counter + 1 ELSE CounterAfter(next)
       /\ feedbackLog' =
            IF next.feedback_id # -1
              THEN AppendFeedback(feedbackLog,
                     OutcomeEntry(r, name, stage, MatchingDeliveries(feedbackLog, name)[1]))
              ELSE feedbackLog
       /\ UNCHANGED <<cfg, cached>>

\* the PMM notification of an outcome has been answered, or the fetch has thrown
NotifyDone(results) ==
  \E r \in DOMAIN runs, result \in results :
    /\ runs[r].pc = "notify"
    /\ runs' = [runs EXCEPT ![r] =
                  Done(runs[r], IF result = "throws" THEN "notify_failed"
                                ELSE "outcome_notified")]
    /\ UNCHANGED <<cfg, counter, feedbackLog, cached>>

NoLookup == [email |-> <<>>, id |-> ""]

\* users.lookupByEmail has answered (or the fetch has thrown): a usable answer is
\* cached in the rep directory, then the continuation goes on
LookupDone(results, ids, names, times) ==
  \E r \in DOMAIN runs, result \in results, id \in ids, real_name \in names, now \in times :
    LET run == runs[r]
        ok == result = "ok" /\ id # ""
        entry == LookupEntry(run.deal.rep_email, id, real_name, now)
        next == IF ok
                  THEN Pipeline(Did([run EXCEPT !.lookup = "ok", !.lookupId = id],
                                    "writeRepDirectory"),
                                Resolved(run.deal, id, "slack_api_lookup"))
                  ELSE Pipeline([run EXCEPT !.lookup = IF result = "ok" THEN "not_ok" ELSE result],
                                run.deal)
    IN /\ run.pc = "lookup"
       /\ repDir' = IF ok THEN CacheLookup(repDir, entry) ELSE repDir
       /\ lastRepOp' = IF ok THEN RepOp("upsert", entry) ELSE lastRepOp
       /\ cached' = IF ok THEN [email |-> run.deal.rep_email, id |-> id] ELSE cached
       /\ runs' = [runs EXCEPT ![r] = next]
       /\ counter' = CounterAfter(next)
       /\ UNCHANGED <<cfg, feedbackLog>>

\* callClaude has returned its text, or thrown (the API call failed or the answer
\* had no text block)
ClaudeDoneFallingBackToTemplate(results) ==
  \E r \in DOMAIN runs, result \in results :
    LET next == IF result = "text" THEN Send([runs[r] EXCEPT !.generated = "claude"])
                ELSE Send(Did([runs[r] EXCEPT !.generated = "template"],
                              "buildTemplateEnablement"))
    IN /\ runs[r].pc = "claude"
       /\ runs' = [runs EXCEPT ![r] = next]
       /\ counter' = CounterAfter(next)
       /\ UNCHANGED <<cfg, feedbackLog, cached>>

\* callClaude has returned its text, or has thrown: the call failed, or the
\* response held no text block
ClaudeDone(results) ==
  \E r \in DOMAIN runs, result \in results :
    LET next == IF result = "text" THEN Send([runs[r] EXCEPT !.generated = "claude"])
                ELSE Done(runs[r], "claude_failed")
    IN /\ runs[r].pc = "claude"
       /\ runs' = [runs EXCEPT ![r] = next]
       /\ counter' = CounterAfter(next)
       /\ UNCHANGED <<cfg, feedbackLog, cached>>

\* the DeliveryEntry of a run; run is the request it was written for
BuildDeliveryEntry(r) ==
  [delivery_id |-> runs[r].delivery_id,
   rep_id |-> IF runs[r].deal.rep_slack_id # "" THEN runs[r].deal.rep_slack_id
              ELSE IF runs[r].deal.rep_email # <<>> THEN Text(runs[r].deal.rep_email)
              ELSE "unknown",
   deal_name |-> runs[r].deal_name,
   case_studies_surfaced |-> runs[r].kbSeen.case_studies,
   channel |-> cfg.channel,
   run |-> r]

\* the messaging platform has answered (ok or not), or the fetch has thrown: an
\* answer of either kind is followed by logDelivery
SendDone(results) ==
  \E r \in DOMAIN runs, result \in results :
    /\ runs[r].pc = "send"
    /\ runs' = [runs EXCEPT ![r] =
                  IF result = "throws" THEN Done(runs[r], "send_failed")
                  ELSE Done(Did(runs[r], "appendDelivery"),
                            IF result = "ok" THEN "delivered" ELSE "delivered_not_ok")]
    /\ feedbackLog' = IF result = "throws" THEN feedbackLog
                      ELSE AppendDelivery(feedbackLog, BuildDeliveryEntry(r))
    /\ UNCHANGED <<cfg, counter, cached>>

\* what the CRM, the platforms and the curation server send the webhook server
WebhookStages == { "Negotiation", "Discovery" }
DealEmails == { <<>>, <<"A">> }
DealNames == { "D1" }
CrmIds == { "", "UC" }
LookupResults == { "ok", "not_ok", "throws" }
LookupIds == { "", "U2" }
LookupNames == { "N2" }
ClaudeResults == { "text", "no_text", "throws" }
SendResults == { "ok", "not_ok", "throws" }

\* the stage changes a CRM reports: the four trigger stages, and stages that are
\* none of them (empty, differently cased, padded, another stage)
CrmStages ==
  { "Proposal Sent", "Negotiation", "Closed Won", "Closed Lost",
    "", "negotiation", " Negotiation", "Discovery" }
CrmEmails == { <<"A">> }
CrmDealNames == { "D1", "D2" }
CrmLookupResults == { "ok", "throws" }
CrmLookupIds == { "U2" }
CrmSendResults == { "ok", "throws" }
NotifyResults == { "ok", "throws" }

\* the knowledge base the curation server has pushed: configured, one case study
CrmKbBodies == { k \in PushedKBs : Len(k.case_studies) > 0 }

LogConfigs ==
  { WithPmmSlackId(Config("slack", "xoxb", "", "sk", ""), "UP"),
    Config("slack", "xoxb", "", "", "") }
LogStages == { "Negotiation", "Closed Won", "Closed Lost" }
LogCrmIds == { "UC", "UD" }
LogDealNames == { "D1", "d1" }
LogClaudeResults == { "text" }

ServerSyncDirectories ==
  { <<>>,
    << RepEntry(<<"a">>, "N0", "U0", "", "t0", "manual") >>,
    << RepEntry(<<"b">>, "N0", "U0", "T0", "t0", "manual"),
       RepEntry(<<"a">>, "N0", "", "T0", "t0", "bot_start") >> }

(***************************************************************************)
(* CRM payload normaliser                                                   *)
(*                                                                         *)
(* A JSON value is [type, str, fields]: str is the text of a string, fields *)
(* the name-carrying fields of a nested object.                             *)
(***************************************************************************)
ObjKeys ==
  { "dealname", "name", "title", "display_name",
    "dealstage", "stage", "status", "stage_name", "stage_id" }

NoFields == [k \in ObjKeys |-> [type |-> "undefined", str |-> ""]]

Undefined == [type |-> "undefined", str |-> "", fields |-> NoFields]

Str(s) == [type |-> "string", str |-> s, fields |-> NoFields]

\* a number, str its decimal text
Num(digits) == [type |-> "number", str |-> digits, fields |-> NoFields]

\* a nested object with one of its fields set
Obj(key, value) ==
  [type |-> "object", str |-> "",
   fields |-> [NoFields EXCEPT ![key] = [type |-> value.type, str |-> value.str]]]

\* a nested object with two of its fields set
Obj2(key1, value1, key2, value2) ==
  [type |-> "object", str |-> "",
   fields |-> [NoFields EXCEPT ![key1] = [type |-> value1.type, str |-> value1.str],
                               ![key2] = [type |-> value2.type, str |-> value2.str]]]

\* JavaScript truthiness of a value
Truthy(v) ==
  \/ v.type = "object"
  \/ v.type = "string" /\ v.str # ""
  \/ v.type = "number" /\ v.str # "0"

\* a || b
Or(a, b) == IF Truthy(a) THEN a ELSE b

\* obj.key, undefined when obj is not an object
Get(obj, key) ==
  IF obj.type = "object"
    THEN [type |-> obj.fields[key].type, str |-> obj.fields[key].str, fields |-> NoFields]
    ELSE Undefined

\* the helper str(value, fallback)
StrOr(value, fallback) ==
  IF value.type = "string" /\ value.str # "" THEN value.str ELSE fallback

\* a payload: the top-level fields the detection and the name mapping look at
Payload(properties, StageName, Name, attributes, current, lead, status_label, lead_name, deal_name) ==
  [properties |-> properties, StageName |-> StageName, Name |-> Name,
   attributes |-> attributes, current |-> current, lead |-> lead,
   status_label |-> status_label, lead_name |-> lead_name, deal_name |-> deal_name,
   status_type |-> Undefined, deal_stage |-> Undefined]

\* a payload that also carries the top-level stage fields of Close and of the
\* generic format
StagePayload(p, status_type, deal_stage) ==
  [p EXCEPT !.status_type = status_type, !.deal_stage = deal_stage]

\* what reading any field of a non-object gives
NoPayload ==
  Payload(Undefined, Undefined, Undefined, Undefined, Undefined, Undefined,
          Undefined, Undefined, Undefined)

\* a request body: its own fields and its body field, which is absent, a string or
\* an object holding a payload
RawInput(bodyType, bodyStr, wrapped, own) ==
  [body |-> [type |-> bodyType, str |-> bodyStr, payload |-> wrapped], own |-> own]

\* rawInput.body || rawInput
Unwrap(input) ==
  IF input.body.type = "object" THEN input.body.payload
  ELSE IF input.body.type = "string" /\ input.body.str # "" THEN NoPayload
  ELSE input.own

DetectCrmTypeAttioFirst(raw) ==
  IF Truthy(raw.properties) /\ raw.properties.type = "object" THEN "hubspot"
  ELSE IF Truthy(raw.attributes) /\ raw.attributes.type = "object" THEN "attio"
  ELSE IF Truthy(raw.StageName) \/ Truthy(raw.Name) THEN "salesforce"
  ELSE IF Truthy(raw.current) /\ raw.current.type = "object" THEN "pipedrive"
  ELSE IF Truthy(raw.lead) \/ Truthy(raw.status_label) THEN "close"
  ELSE "generic"

DetectCrmType(raw) ==
  IF Truthy(raw.properties) /\ raw.properties.type = "object" THEN "hubspot"
  ELSE IF Truthy(raw.StageName) \/ Truthy(raw.Name) THEN "salesforce"
  ELSE IF Truthy(raw.attributes) /\ raw.attributes.type = "object" THEN "attio"
  ELSE IF Truthy(raw.current) /\ raw.current.type = "object" THEN "pipedrive"
  ELSE IF Truthy(raw.lead) \/ Truthy(raw.status_label) THEN "close"
  ELSE "generic"

\* the deal_name each vendor's mapper gives
ParseHubSpot(raw) == StrOr(Get(raw.properties, "dealname"), "Unknown Deal")
ParseSalesforce(raw) == StrOr(raw.Name, "Unknown Deal")
ParseAttio(raw) ==
  StrOr(Or(Get(raw.attributes, "name"), Get(raw.attributes, "title")), "Unknown Deal")
ParsePipedrive(raw) == StrOr(Get(raw.current, "title"), "Unknown Deal")
ParseClose(raw) == StrOr(Or(Get(raw.lead, "display_name"), raw.lead_name), "Unknown Deal")
ParseGeneric(raw) == StrOr(raw.deal_name, "Unknown Deal")

\* the deal_stage each vendor's mapper gives
HubSpotStage(raw) == StrOr(Get(raw.properties, "dealstage"), "")
SalesforceStage(raw) == StrOr(raw.StageName, "")
AttioStage(raw) ==
  StrOr(Or(Get(raw.attributes, "stage"), Get(raw.attributes, "status")), "")
PipedriveStage(raw) ==
  StrOr(Or(Get(raw.current, "stage_name"), Get(raw.current, "status")), "")
CloseStage(raw) == StrOr(Or(raw.status_label, raw.status_type), "")
GenericStage(raw) == StrOr(raw.deal_stage, "")

\* parseCrmPayload: the _crm_type, deal_name and deal_stage of the DealContext
ParseCrmPayload(input) ==
  LET raw == Unwrap(input)
      crmType == DetectCrmType(raw)
  IN [crm_type |-> crmType,
      deal_stage |-> CASE crmType = "hubspot" -> HubSpotStage(raw)
                       [] crmType = "salesforce" -> SalesforceStage(raw)
                       [] crmType = "attio" -> AttioStage(raw)
                       [] crmType = "pipedrive" -> PipedriveStage(raw)
                       [] crmType = "close" -> CloseStage(raw)
                       [] OTHER -> GenericStage(raw),
      deal_name |-> CASE crmType = "hubspot" -> ParseHubSpot(raw)
                      [] crmType = "salesforce" -> ParseSalesforce(raw)
                      [] crmType = "attio" -> ParseAttio(raw)
                      [] crmType = "pipedrive" -> ParsePipedrive(raw)
                      [] crmType = "close" -> ParseClose(raw)
                      [] OTHER -> ParseGeneric(raw)]

\* the payloads drawn: every marker absent, empty or present, alone and together
Payloads ==
  { Payload(properties, StageName, Name, attributes, current, lead, status_label,
            lead_name, deal_name) :
      properties \in { Undefined, Str("p"), Obj("dealname", Undefined),
                       Obj("dealname", Str("H")) },
      StageName \in { Undefined, Str("Negotiation") },
      Name \in { Undefined, Str(""), Str("S") },
      attributes \in { Undefined, Obj("title", Str("T")),
                       Obj2("name", Str("A"), "title", Str("T")) },
      current \in { Undefined, Obj("title", Str("P")) },
      lead \in { Undefined, Obj("display_name", Undefined), Obj("display_name", Str("C")) },
      status_label \in { Undefined, Str("Won") },
      lead_name \in { Undefined, Str("L") },
      deal_name \in { Undefined, Str(""), Str("G") } }

\* each payload sent as it is, wrapped under body, or next to a body that is a string
RawInputs ==
  { RawInput("undefined", "", NoPayload, p) : p \in Payloads }
    \cup { RawInput("object", "", p, NoPayload) : p \in Payloads }
    \cup { RawInput("string", s, NoPayload, p) : s \in { "", "x" }, p \in Payloads }

NotParsed == [crm_type |-> "", deal_name |-> "", deal_stage |-> ""]

\* String(value) of a truthy value
String(v) == IF v.type = "object" THEN "[object Object]" ELSE v.str

\* extractStage: the first stage field found, going through the vendors in order
ExtractStage(input) ==
  LET body == Unwrap(input)
      props == body.properties
      attrs == body.attributes
      current == body.current
  IN IF Truthy(props) /\ props.type = "object" /\ Truthy(Get(props, "dealstage"))
       THEN String(Get(props, "dealstage"))
     ELSE IF Truthy(body.StageName) THEN String(body.StageName)
     ELSE IF Truthy(attrs) /\ attrs.type = "object" /\ Truthy(Get(attrs, "stage"))
       THEN String(Get(attrs, "stage"))
     ELSE IF Truthy(current) /\ current.type = "object"
               /\ Truthy(Get(current, "stage_name"))
       THEN String(Get(current, "stage_name"))
     ELSE IF Truthy(current) /\ current.type = "object"
               /\ Truthy(Get(current, "stage_id"))
       THEN String(Get(current, "stage_id"))
     ELSE IF Truthy(body.status_label) THEN String(body.status_label)
     ELSE IF Truthy(body.deal_stage) THEN String(body.deal_stage)
     ELSE ""

\* the payloads drawn for the stage: the stage fields of every vendor, alone and
\* together, with and without the markers that carry no stage
StagePayloads ==
  { StagePayload(Payload(properties, StageName, Name, attributes, current, lead,
                         status_label, Undefined, Undefined),
                 status_type, deal_stage) :
      properties \in { Undefined, Obj("dealname", Str("H")),
                       Obj("dealstage", Str("Negotiation")) },
      StageName \in { Undefined, Str("Proposal Sent") },
      Name \in { Undefined, Str("S") },
      attributes \in { Undefined, Obj("stage", Str("Negotiation")),
                       Obj("status", Str("Negotiation")) },
      current \in { Undefined, Obj("stage_name", Str("Negotiation")),
                    Obj("stage_id", Num("5")), Obj("status", Str("open")) },
      lead \in { Undefined, Obj("display_name", Str("C")) },
      status_label \in { Undefined, Str("Closed Won") },
      status_type \in { Undefined, Str("won") },
      deal_stage \in { Undefined, Str("Negotiation"), Str("Discovery") } }

\* each of them sent as it is or wrapped under body
StageInputs ==
  { RawInput("undefined", "", NoPayload, p) : p \in StagePayloads }
    \cup { RawInput("object", "", p, NoPayload) : p \in StagePayloads }

NotExtracted == [called |-> FALSE, stage |-> ""]

\* extractStage applied to the request body
Extract ==
  /\ extracted = NotExtracted
  /\ extracted' = [called |-> TRUE, stage |-> ExtractStage(rawInput)]
  /\ UNCHANGED <<rawInput, parsed>>

\* parseCrmPayload applied to the request body
Parse ==
  /\ parsed = NotParsed
  /\ parsed' = ParseCrmPayload(rawInput)
  /\ UNCHANGED <<rawInput, extracted>>

(***************************************************************************)
(* Template-based enablement: matching                                      *)
(***************************************************************************)
MaxCaseStudies == 3  \* case studies given to findBestCaseStudy
MaxObjections == 4   \* objections given to findRelevantObjections

\* the fields of a deal the content builders read
TemplateDeal(industry, deal_stage, competitor) ==
  [industry |-> industry, deal_stage |-> deal_stage, competitor |-> competitor]

\* the arguments (deal, kb) of a content builder
TemplateArgs(deal, case_studies, objection_library, competitor_positioning, methodology) ==
  [deal |-> deal, case_studies |-> case_studies, objection_library |-> objection_library,
   competitor_positioning |-> competitor_positioning, methodology |-> methodology]

NoTemplateArgs == TemplateArgs(TemplateDeal(<<>>, <<>>, <<>>), <<>>, <<>>, <<>>, FALSE)

NoCaseStudy == [id |-> 0, industry |-> <<>>, relevant_stages |-> <<>>]

\* the result of the builder called: which one, and what it returned
TemplateResult(fn, caseStudy, objections, text) ==
  [fn |-> fn, caseStudy |-> caseStudy, objections |-> objections, text |-> text]

NotBuilt == TemplateResult("none", NoCaseStudy, <<>>, <<>>)

\* relevant_stages.some((s) => s.toLowerCase() === stage)
SomeStage(relevant_stages, stage) ==
  \E i \in DOMAIN relevant_stages : ToLowerCase(relevant_stages[i]) = stage

\* the score the map callback of findBestCaseStudy gives a case study
CaseStudyScore(deal, cs) ==
  LET industry == ToLowerCase(deal.industry)
      stage == ToLowerCase(deal.deal_stage)
      exact == IF ToLowerCase(cs.industry) = industry THEN 10 ELSE 0
      staged == exact + (IF SomeStage(cs.relevant_stages, stage) THEN 5 ELSE 0)
  IN IF /\ staged < 10
        /\ \/ Includes(ToLowerCase(cs.industry), industry)
           \/ Includes(industry, ToLowerCase(cs.industry))
       THEN staged + 3
       ELSE staged

InsertBeforeEqualScores(sorted, x) ==
  LET before == SelectSeq(sorted, LAMBDA y : y.score > x.score)
      after == SelectSeq(sorted, LAMBDA y : y.score <= x.score)
  IN before \o <<x>> \o after

\* one element more in a sequence sorted by descending score: it goes behind the
\* elements of equal score (Array.prototype.sort is stable)
InsertByScore(sorted, x) ==
  LET before == SelectSeq(sorted, LAMBDA y : y.score >= x.score)
      after == SelectSeq(sorted, LAMBDA y : y.score < x.score)
  IN before \o <<x>> \o after

RECURSIVE SortByScore(_)
\* scored.sort((a, b) => b.score - a.score)
SortByScore(scored) ==
  IF scored = <<>> THEN <<>>
  ELSE InsertByScore(SortByScore(SubSeq(scored, 1, Len(scored) - 1)), scored[Len(scored)])

FindBestCaseStudy(deal, caseStudies) ==
  IF Len(caseStudies) = 0 THEN NoCaseStudy
  ELSE LET scored == [i \in DOMAIN caseStudies |->
                        [entry |-> caseStudies[i],
                         score |-> CaseStudyScore(deal, caseStudies[i])]]
       IN SortByScore(scored)[1].entry

\* the industries and stages of deals and case studies: equal up to case, one
\* contained in the other, unrelated
DealIndustries == { <<"A", "b">>, <<"b">> }
DealStages == { <<"N">>, <<"U">> }
CaseStudyIndustries == { <<"a", "B">>, <<"a">>, <<"a", "b", "a">>, <<"B", "B">> }
CaseStudyStages == { <<>>, << <<"n">> >> }

\* lists of n entries taken from a set of field records, numbered in list order
Numbered(fields, n) ==
  { [i \in 1..n |-> [id |-> i] @@ f[i]] : f \in [1..n -> fields] }

CaseStudyLists ==
  UNION { Numbered([industry : CaseStudyIndustries, relevant_stages : CaseStudyStages], n) :
            n \in 0..MaxCaseStudies }

CaseStudyArgs ==
  { TemplateArgs(TemplateDeal(industry, stage, <<>>), list, <<>>, <<>>, FALSE) :
      industry \in DealIndustries, stage \in DealStages, list \in CaseStudyLists }

\* findBestCaseStudy applied to the deal and the case studies
CallFindBestCaseStudy ==
  /\ templateResult = NotBuilt
  /\ templateResult' =
       TemplateResult("findBestCaseStudy",
                      FindBestCaseStudy(templateArgs.deal, templateArgs.case_studies),
                      <<>>, <<>>)
  /\ UNCHANGED templateArgs

\* the score the map callback of findRelevantObjections gives an objection; an
\* objection without a competitor carries the empty string
ObjectionScore(deal, ob) ==
  LET competitor == ToLowerCase(deal.competitor)
      stage == ToLowerCase(deal.deal_stage)
      matched == (IF ob.competitor # <<>> /\ ToLowerCase(ob.competitor) = competitor
                    THEN 10 ELSE 0)
                 + (IF SomeStage(ob.relevant_stages, stage) THEN 5 ELSE 0)
  IN IF ob.competitor = <<>> /\ matched = 0 THEN matched + 1 ELSE matched

\* slice(0, n)
Slice(seq, n) == SubSeq(seq, 1, IF Len(seq) < n THEN Len(seq) ELSE n)

FindRelevantObjectionsInLibraryOrder(deal, objections) ==
  Slice(SelectSeq(objections, LAMBDA ob : ObjectionScore(deal, ob) > 0), 3)

FindRelevantObjections(deal, objections) ==
  IF Len(objections) = 0 THEN <<>>
  ELSE LET scored == [i \in DOMAIN objections |->
                        [entry |-> objections[i],
                         score |-> ObjectionScore(deal, objections[i])]]
           top == Slice(SortByScore(SelectSeq(scored, LAMBDA x : x.score > 0)), 3)
       IN [i \in DOMAIN top |-> top[i].entry]

\* the competitors of deals and objections: equal up to case, another one, none
DealCompetitors == { <<"a">>, <<"N", "o", "n", "e">> }
ObjectionCompetitors == { <<>>, <<"A">>, <<"B">> }

ObjectionLists ==
  UNION { Numbered([competitor : ObjectionCompetitors, relevant_stages : CaseStudyStages], n) :
            n \in 0..MaxObjections }

ObjectionArgs ==
  { TemplateArgs(TemplateDeal(<<>>, stage, competitor), <<>>, list, <<>>, FALSE) :
      stage \in DealStages, competitor \in DealCompetitors, list \in ObjectionLists }

\* findRelevantObjections applied to the deal and the objection library
CallFindRelevantObjections ==
  /\ templateResult = NotBuilt
  /\ templateResult' =
       TemplateResult("findRelevantObjections", NoCaseStudy,
                      FindRelevantObjections(templateArgs.deal,
                                             templateArgs.objection_library),
                      <<>>)
  /\ UNCHANGED templateArgs

(***************************************************************************)
(* Template-based enablement: assembly                                      *)
(*                                                                         *)
(* The text returned is the join, by blank lines, of its blocks; it is kept *)
(* as the sequence of the blocks, each with the title line it starts with.  *)
(***************************************************************************)
Block(kind, title) == [kind |-> kind, title |-> title]

NoPositioning == [id |-> 0, competitor |-> <<>>]

FindCompetitorPositioning(competitor, positioning) ==
  LET hits == [i \in DOMAIN positioning |->
                 ToLowerCase(positioning[i].competitor) = ToLowerCase(competitor)]
  IN IF Len(positioning) = 0 \/ competitor = <<>> \/ FindIndex(hits) = 0
       THEN NoPositioning
       ELSE positioning[FindIndex(hits)]

NOT_SPECIFIED == <<"N", "o", "t", " ", "s", "p", "e", "c", "i", "f", "i", "e", "d">>

\* the competitor is a name, none of the placeholders
NamedCompetitor(competitor) ==
  /\ competitor # <<"U", "n", "k", "n", "o", "w", "n">>
  /\ competitor # <<"N", "o", "n", "e">>
  /\ competitor # NOT_SPECIFIED

\* the sections pushed, in the order of the pushes
Sections(deal, k) ==
  LET objections == FindRelevantObjections(deal, k.objection_library)
      bestCaseStudy == FindBestCaseStudy(deal, k.case_studies)
      positioning == FindCompetitorPositioning(deal.competitor, k.competitor_positioning)
  IN (IF Len(objections) > 0
        THEN << Block("objections", "TOP OBJECTION RESPONSES") >> ELSE <<>>)
     \o (IF bestCaseStudy # NoCaseStudy
           THEN << Block("case_study", "RELEVANT CASE STUDY") >>
           ELSE << Block("no_case_study", "RELEVANT CASE STUDY") >>)
     \o (IF positioning # NoPositioning
           THEN << Block("competitor", "COMPETITOR POSITIONING") >>
         ELSE IF deal.competitor # <<>> /\ NamedCompetitor(deal.competitor)
           THEN << Block("no_competitor", "COMPETITOR POSITIONING") >>
         ELSE <<>>)
     \o (IF k.methodology THEN << Block("methodology", "METHODOLOGY") >> ELSE <<>>)

Header == Block("header", "DEAL CONTEXT")

Separator == Block("separator", "---")

BuildTemplateEnablementHeaderLast(deal, k) == Sections(deal, k) \o << Separator, Header >>

\* [header, "---", ...sections].join("\n\n")
BuildTemplateEnablement(deal, k) == << Header, Separator >> \o Sections(deal, k)

PositioningLists ==
  { <<>>, << [id |-> 1, competitor |-> <<"A">>] >>, << [id |-> 1, competitor |-> <<"B">>] >> }

BuildArgs ==
  { TemplateArgs(TemplateDeal(<<"A", "b">>, <<"N">>, competitor),
                 case_studies, objection_library, competitor_positioning, methodology) :
      competitor \in { <<"a">>, <<"N", "o", "n", "e">>, NOT_SPECIFIED, <<>> },
      case_studies \in
        UNION { Numbered([industry : { <<"a", "B">> }, relevant_stages : { <<>> }], n) :
                  n \in 0..1 },
      objection_library \in
        UNION { Numbered([competitor : { <<>>, <<"B">> }, relevant_stages : { <<>> }], n) :
                  n \in 0..2 },
      competitor_positioning \in PositioningLists,
      methodology \in BOOLEAN }

\* buildTemplateEnablement applied to the deal and the knowledge base
CallBuildTemplateEnablement ==
  /\ templateResult = NotBuilt
  /\ templateResult' =
       TemplateResult("buildTemplateEnablement", NoCaseStudy, <<>>,
                      BuildTemplateEnablement(templateArgs.deal, templateArgs))
  /\ UNCHANGED templateArgs

(***************************************************************************)
(* Prompt builder                                                           *)
(*                                                                         *)
(* A deal field is kept by its length and by whether it ends in the         *)
(* truncation marker; the prompt is kept as its interpolation sites, in the *)
(* order of the text.                                                       *)
(***************************************************************************)
DealNameMax == 200
CompanyNameMax == 200
IndustryMax == 100
CompetitorMax == 100
DealStageMax == 100
ProductInterestMax == 300
DealNotesMax == 1000

Value(length) == [length |-> length, marker |-> FALSE]

\* truncate(value, maxLen): an empty value is returned as it is
Truncate(value, maxLen) ==
  IF value.length = 0 THEN value
  ELSE IF value.length > maxLen THEN [length |-> maxLen + 1, marker |-> TRUE]
  ELSE value

PromptFields ==
  { "deal_name", "company_name", "industry", "competitor", "deal_stage",
    "product_interest", "deal_notes" }

SanitizeDealFields(deal) ==
  [deal_name |-> Truncate(deal.deal_name, DealNameMax),
   company_name |-> Truncate(deal.company_name, CompanyNameMax),
   industry |-> Truncate(deal.industry, IndustryMax),
   competitor |-> Truncate(deal.competitor, CompetitorMax),
   deal_stage |-> Truncate(deal.deal_stage, DealStageMax),
   product_interest |-> Truncate(deal.product_interest, ProductInterestMax),
   deal_notes |-> Truncate(deal.deal_notes, DealNotesMax)]

\* ${...}: the value of a deal field at a line of the template
Site(line, field, from) == [line |-> line, field |-> field, value |-> from[field]]

BuildPrompt(deal, k) ==
  LET safeDeal == SanitizeDealFields(deal)
  IN << Site(26, "deal_stage", safeDeal),
        Site(31, "deal_name", safeDeal),
        Site(32, "company_name", safeDeal),
        Site(33, "industry", safeDeal),
        Site(35, "competitor", safeDeal),
        Site(36, "product_interest", safeDeal),
        Site(37, "deal_notes", safeDeal),
        Site(57, "deal_stage", deal),
        Site(57, "industry", deal),
        Site(57, "competitor", deal),
        Site(62, "industry", deal),
        Site(62, "deal_stage", deal),
        Site(69, "competitor", deal),
        Site(70, "competitor", deal) >>

\* a field of the CRM: empty, as long as its maximum, one character longer, or
\* twice as long
Lengths(maxLen) == { Value(0), Value(maxLen), Value(maxLen + 1), Value(2 * maxLen) }

PromptArgs ==
  { TemplateArgs(deal, <<>>, <<>>, <<>>, FALSE) :
      deal \in [deal_name : Lengths(DealNameMax),
                company_name : Lengths(CompanyNameMax),
                industry : Lengths(IndustryMax),
                competitor : Lengths(CompetitorMax),
                deal_stage : Lengths(DealStageMax),
                product_interest : Lengths(ProductInterestMax),
                deal_notes : Lengths(DealNotesMax)] }

\* buildPrompt applied to the deal and the knowledge base
CallBuildPrompt ==
  /\ templateResult = NotBuilt
  /\ templateResult' =
       TemplateResult("buildPrompt", NoCaseStudy, <<>>,
                      BuildPrompt(templateArgs.deal, templateArgs))
  /\ UNCHANGED templateArgs

(***************************************************************************)
(* Feedback normaliser and the feedback webhook                             *)
(***************************************************************************)
\* what JSON.parse makes of the text of a payload field
JsonNull == [isNull |-> TRUE, actions |-> <<>>, user_id |-> ""]

\* a parsed interactive payload: its actions and the id of its user
Interactive(actions, user_id) == [isNull |-> FALSE, actions |-> actions, user_id |-> user_id]

Action(action_id, value) == [action_id |-> action_id, value |-> value]

\* generateDeliveryId: "del-", the time in base 36, "-", the counter in base 36
Base36 ==
  << "0", "1", "2", "3", "4", "5", "6", "7", "8", "9", "a", "b", "c", "d", "e", "f" >>

DeliveryIdChars(n) == << "d", "e", "l", "-", "l", "x", "-", Base36[n + 1] >>

DeliveryIdText(n) == Text(DeliveryIdChars(n))

\* the ids a delivery can get
DeliveryIds == { DeliveryIdText(n) : n \in 0..(Len(Base36) - 1) }

\* the text of the interactive payload a platform posts for a click
JsonStringify(object) ==
  "{\"actions\":["
    \o (IF object.actions = <<>> THEN ""
        ELSE "{\"action_id\":\"" \o object.actions[1].action_id
               \o "\",\"value\":\"" \o object.actions[1].value \o "\"}")
    \o "],\"user\":{\"id\":\"" \o object.user_id \o "\"}}"

\* the interactive payloads a click on a delivered message can post
InteractivePayloads ==
  { Interactive(<<>>, "U1") }
    \cup { Interactive(<< Action(action_id, value) >>, "U1") :
             action_id \in {"feedback_helpful", "feedback_not_helpful"},
             value \in DeliveryIds \cup {"del-1"} }

HelpfulJson == JsonStringify(Interactive(<< Action("feedback_helpful", "del-1") >>, "U1"))

NoActionsJson == JsonStringify(Interactive(<<>>, "U1"))

\* JSON.parse: the value, or a SyntaxError
JsonParse(text) ==
  IF \E object \in InteractivePayloads : JsonStringify(object) = text
    THEN [ok |-> TRUE,
          value |-> CHOOSE object \in InteractivePayloads : JsonStringify(object) = text]
  ELSE IF text = "null" THEN [ok |-> TRUE, value |-> JsonNull]
  ELSE [ok |-> FALSE, value |-> JsonNull]

\* the payload field of a body: absent, a string, or an object
PayloadField(type, text, object) == [type |-> type, text |-> text, object |-> object]

NoPayloadField == PayloadField("undefined", "", JsonNull)

\* body.event, body.callback_query and body.message: absent or an object
NoObject == [present |-> FALSE]

Event(text, thread_ts, user) ==
  [present |-> TRUE, text |-> text, thread_ts |-> thread_ts, user |-> user]

\* data is absent (hasData FALSE) or a string, kept by its characters
\* message_id is the id of the message the button was on, 0 without a message
CallbackQuery(hasData, data, from_id, message_id) ==
  [present |-> TRUE, hasData |-> hasData, data |-> data, from_id |-> from_id,
   message_id |-> message_id]

Message(text, replied, reply_message_id, from_id) ==
  [present |-> TRUE, text |-> text, replied |-> replied,
   reply_message_id |-> reply_message_id, from_id |-> from_id]

FeedbackBody(type, challenge, payload, event, callback_query, message, deal_name, summary) ==
  [type |-> type, challenge |-> challenge, payload |-> payload, event |-> event,
   callback_query |-> callback_query, message |-> message, deal_name |-> deal_name,
   summary |-> summary]

NoFeedbackEntry ==
  [id |-> -1, delivery_id |-> "", source |-> "", value |-> "", raw_text |-> "",
   rep_id |-> "", deal_name |-> ""]

\* a FeedbackEntry; raw_text is "" where the code has null
FeedbackEntry(delivery_id, source, value, raw_text, rep_id, deal_name) ==
  [id |-> counter, delivery_id |-> delivery_id, source |-> source, value |-> value,
   raw_text |-> raw_text, rep_id |-> rep_id, deal_name |-> deal_name]

\* what parseFeedback gives: a challenge to echo, an entry, null, or an exception
Parsed(kind, shape, challenge, entry) ==
  [kind |-> kind, shape |-> shape, challenge |-> challenge, entry |-> entry]

ReturnsNull == Parsed("null", "none", "", NoFeedbackEntry)

Throws == Parsed("throws", "payload", "", NoFeedbackEntry)

Returns(shape, entry) == Parsed("entry", shape, "", entry)

\* the characters of a sequence before its first colon
RECURSIVE BeforeColon(_)
BeforeColon(chars) ==
  IF chars = <<>> \/ Head(chars) = ":" THEN <<>>
  ELSE << Head(chars) >> \o BeforeColon(Tail(chars))

\* the characters behind the first colon, none when there is no colon
AfterColon(chars) ==
  IF Len(BeforeColon(chars)) = Len(chars) THEN <<>>
  ELSE SubSeq(chars, Len(BeforeColon(chars)) + 2, Len(chars))

RECURSIVE Join(_)
\* the string of a sequence of characters
Join(chars) == IF chars = <<>> THEN "" ELSE Head(chars) \o Join(Tail(chars))

\* split(":"): the first and the second piece, "" where a piece is missing
SplitColon(chars) ==
  [first |-> Join(BeforeColon(chars)), second |-> Join(BeforeColon(AfterColon(chars)))]

\* the shapes tried after the interactive payload
ParseOtherShapes(body) ==
  IF body.event.present /\ body.event.text # "" /\ body.event.thread_ts # ""
    THEN Returns("event",
           FeedbackEntry("thread-" \o body.event.thread_ts, "reply", "field_signal",
                         body.event.text, body.event.user, ""))
  ELSE IF body.callback_query.present
    THEN LET cbData == SplitColon(IF body.callback_query.hasData
                                    THEN body.callback_query.data ELSE <<>>)
         IN Returns("callback_query",
              FeedbackEntry(cbData.second, "reaction", cbData.first, "",
                            body.callback_query.from_id, ""))
  ELSE IF body.message.present /\ body.message.text # "" /\ body.message.replied
    THEN Returns("message",
           FeedbackEntry("tg-msg-" \o body.message.reply_message_id, "reply",
                         "field_signal", body.message.text, body.message.from_id, ""))
  ELSE IF body.deal_name # "" /\ body.summary # ""
    THEN Returns("call_intel",
           FeedbackEntry("", "call_intel", body.summary, body.summary, "", body.deal_name))
  ELSE ReturnsNull

\* the interactive payload once parsed: reading the actions of null throws
ParseInteractive(parsedPayload, body) ==
  IF parsedPayload.isNull THEN Throws
  ELSE IF Len(parsedPayload.actions) > 0
    THEN Returns("payload",
           FeedbackEntry(parsedPayload.actions[1].value, "reaction",
                         IF parsedPayload.actions[1].action_id = "feedback_helpful"
                           THEN "helpful" ELSE "not_helpful",
                         "", parsedPayload.user_id, ""))
  ELSE ParseOtherShapes(body)

ParseFeedback(body) ==
  IF body.type = "url_verification" /\ body.challenge # ""
    THEN Parsed("challenge", "url_verification", body.challenge, NoFeedbackEntry)
  ELSE IF body.payload.type = "object" THEN ParseInteractive(body.payload.object, body)
  ELSE IF body.payload.type = "string" /\ body.payload.text # ""
    THEN IF JsonParse(body.payload.text).ok
           THEN ParseInteractive(JsonParse(body.payload.text).value, body)
           ELSE ReturnsNull
  ELSE ParseOtherShapes(body)

\* the bodies posted: every shape absent, incomplete or complete, alone and together
FeedbackBodies ==
  { FeedbackBody(tc[1], tc[2], payload, event, callback_query, message, flat[1], flat[2]) :
      tc \in { <<"", "">>, <<"url_verification", "c">>, <<"url_verification", "">> },
      payload \in { NoPayloadField,
                    PayloadField("string", HelpfulJson, JsonNull),
                    PayloadField("string", NoActionsJson, JsonNull),
                    PayloadField("string", "{bad", JsonNull),
                    PayloadField("string", "null", JsonNull),
                    PayloadField("object", "",
                                 Interactive(<< Action("feedback_not_helpful", "del-2") >>,
                                             "U2")) },
      event \in { NoObject, Event("hi", "17.1", "U1"), Event("hi", "", "U1") },
      callback_query \in { NoObject,
                           CallbackQuery(TRUE, <<"h", ":", "d">>, "7", 0),
                           CallbackQuery(FALSE, <<>>, "7", 0) },
      message \in { NoObject, Message("hi", TRUE, "42", "7"), Message("hi", FALSE, "", "7") },
      flat \in { <<"", "">>, <<"D1", "S">> } }

NoFeedbackBody ==
  FeedbackBody("", "", NoPayloadField, NoObject, NoObject, NoObject, "", "")

NoFeedbackReq ==
  [pc |-> "idle", route |-> "none", body |-> NoFeedbackBody, result |-> ReturnsNull,
   response |-> [status |-> 0, body |-> "none"], found |-> 0]

\* no keyboard of a delivered message has been touched
NoKeyboards == [acking |-> {}, clicked |-> {}]

\* log.deliveries.find((d) => d.delivery_id === feedback.delivery_id): its
\* position, 0 for undefined
FindDelivery(log, entry) ==
  LET matching == { i \in DOMAIN log.deliveries :
                      DeliveryIdText(log.deliveries[i].delivery_id) = entry.delivery_id }
  IN IF matching = {} THEN 0 ELSE CHOOSE i \in matching : \A j \in matching : i <= j

IsFieldSignal(entry) == entry.source \in {"reply", "call_intel"}

\* processFeedback goes on to notify the PMM of a field signal
NotifiesFieldSignal(entry) == IsFieldSignal(entry) /\ NotifiesPmm

\* processTelegramFeedback does
NotifiesFieldSignalOfTelegram(entry) ==
  IsFieldSignal(entry) /\ (cfg.pmmTelegramChatId # "" \/ cfg.pmmSlackId # "")

\* what both feedback routes do with an entry: it is appended, and for a field
\* signal the delivery it names is looked up in the log just written
LogFeedback(result) ==
  /\ counter' = IF result.kind = "entry" THEN counter + 1 ELSE counter
  /\ feedbackLog' = IF result.kind = "entry"
                      THEN AppendFeedback(feedbackLog, result.entry)
                      ELSE feedbackLog

Found(result) ==
  IF result.kind = "entry" /\ IsFieldSignal(result.entry)
    THEN FindDelivery(feedbackLog, result.entry) ELSE 0

\* POST /webhook/feedback: the body is parsed, the request answered, and an entry
\* is appended by processFeedback, which runs up to its await of the notification;
\* an exception of parseFeedback goes to the error handler
FeedbackRoute(body) ==
  LET result == ParseFeedback(body)
      response == CASE result.kind = "throws" -> [status |-> 500, body |-> "error"]
                    [] result.kind = "challenge" -> [status |-> 200, body |-> "challenge"]
                    [] OTHER -> [status |-> 200, body |-> "ok"]
  IN /\ feedbackReq' =
          [pc |-> IF result.kind = "entry" /\ NotifiesFieldSignal(result.entry)
                    THEN "notify" ELSE "done",
           route |-> "feedback", body |-> body, result |-> result,
           response |-> response, found |-> Found(result)]
     /\ LogFeedback(result)
     /\ UNCHANGED <<cfg, runs, cached, keyboards>>

FeedbackWebhook(bodies) ==
  \E body \in bodies : feedbackReq.pc = "idle" /\ FeedbackRoute(body)

\* POST /webhook/telegram: answered at once; acknowledgeCallback is started for a
\* callback query; then the body is parsed and processTelegramFeedback appends the
\* entry and runs up to its await of the notification
TelegramRoute(body) ==
  LET result == ParseFeedback(body)
      acks == IF body.callback_query.present /\ body.callback_query.message_id # 0
                THEN {body.callback_query.message_id} ELSE {}
  IN /\ feedbackReq' =
          [pc |-> IF result.kind = "entry" /\ NotifiesFieldSignalOfTelegram(result.entry)
                    THEN "notify" ELSE "done",
           route |-> "telegram", body |-> body, result |-> result,
           response |-> [status |-> 200, body |-> "ok"], found |-> Found(result)]
     /\ keyboards' = [keyboards EXCEPT !.acking = @ \cup acks]
     /\ IF result.kind = "challenge"
          THEN UNCHANGED <<counter, feedbackLog>>
          ELSE LogFeedback(result)
     /\ UNCHANGED <<cfg, runs, cached>>

\* acknowledgeCallback has had its answers: the toast and the edit that replaces
\* the keyboard of the message by one button, or a fetch has thrown before the edit
AckDone(results) ==
  \E message_id \in keyboards.acking, result \in results :
    /\ keyboards' = [acking |-> keyboards.acking \ {message_id},
                     clicked |-> IF result = "ok"
                                   THEN keyboards.clicked \cup {message_id}
                                   ELSE keyboards.clicked]
    /\ UNCHANGED <<srvVars, feedbackReq>>

\* the notification of a field signal has been answered, or the fetch has thrown
FeedbackNotifyDone(results) ==
  \E result \in results :
    /\ feedbackReq.pc = "notify"
    /\ feedbackReq' = [feedbackReq EXCEPT !.pc = "done"]
    /\ UNCHANGED <<srvVars, keyboards>>

(***************************************************************************)
(* What a template-composed delivery shows and what its entry records       *)
(***************************************************************************)
Ids(entries) == [i \in DOMAIN entries |-> entries[i].id]

\* buildDeliveryEntry: the ids of all case studies of the knowledge base, and of
\* the positioning entries whose competitor is the deal's
SurfacedEntry(deal, k) ==
  [case_studies_surfaced |-> Ids(k.case_studies),
   competitors_surfaced |->
     Ids(SelectSeq(k.competitor_positioning, LAMBDA cp : cp.competitor = deal.competitor))]

\* what steps 5 and 8 of processEnablementPipeline make of a deal and a knowledge
\* base without an API key: the template with its selections, and the entry logged
Delivery(fn, caseStudy, positioning, text, entry) ==
  [fn |-> fn, caseStudy |-> caseStudy, positioning |-> positioning, text |-> text,
   entry |-> entry]

DeliverTemplate ==
  /\ templateResult = NotBuilt
  /\ templateResult' =
       Delivery("deliverTemplate",
                FindBestCaseStudy(templateArgs.deal, templateArgs.case_studies),
                FindCompetitorPositioning(templateArgs.deal.competitor,
                                          templateArgs.competitor_positioning),
                BuildTemplateEnablement(templateArgs.deal, templateArgs),
                SurfacedEntry(templateArgs.deal, templateArgs))
  /\ UNCHANGED templateArgs

SurfacedArgs ==
  { TemplateArgs(TemplateDeal(<<"A", "b">>, <<"N">>, competitor),
                 case_studies, <<>>, competitor_positioning, FALSE) :
      competitor \in { <<"a">>, <<"A">>, <<"B">>, <<>> },
      case_studies \in
        UNION { Numbered([industry : { <<"a", "B">>, <<"b">> }, relevant_stages : { <<>> }],
                         n) : n \in 0..2 },
      competitor_positioning \in
        UNION { Numbered([competitor : { <<"A">>, <<"B">> }], n) : n \in 0..2 } }

(***************************************************************************)
(* The delivered messages: their buttons, and what a rep's click or reply    *)
(* posts back to the server                                                 *)
(***************************************************************************)
MaxFeedback == 3

\* formatSlackMessage: the two buttons of the actions block
FormatSlackMessage(deliveryId) ==
  [elements |-> << Action("feedback_helpful", deliveryId),
                   Action("feedback_not_helpful", deliveryId) >>]

HelpfulPrefix == << "h", "e", "l", "p", "f", "u", "l", ":" >>

NotHelpfulPrefix == << "n", "o", "t", "_" >> \o HelpfulPrefix

FormatTelegramMessageIdFirst(deliveryId) ==
  [inline_keyboard |-> << deliveryId \o << ":" >> \o SubSeq(HelpfulPrefix, 1, 7),
                          deliveryId \o << ":" >> \o SubSeq(NotHelpfulPrefix, 1, 11) >>]

\* formatTelegramMessage: the callback_data of the two buttons of the keyboard
FormatTelegramMessage(deliveryId) ==
  [inline_keyboard |-> << HelpfulPrefix \o deliveryId, NotHelpfulPrefix \o deliveryId >>]

\* the keyboard acknowledgeCallback puts in place of the original one
ClickedKeyboard == << << "n", "o", "o", "p" >> >>

\* the platform has accepted the message of the request and shows it to the rep
Delivered(r) == runs[r].out = "delivered"

\* the identifier the platform gave the message of request r: Slack's ts of the
\* message, Telegram's message_id
ThreadTs(r) == "17." \o Base36[r + 1]

MessageId(r) == r

\* the buttons the rep sees on the message
Keyboard(r) ==
  IF MessageId(r) \in keyboards.clicked THEN ClickedKeyboard
  ELSE FormatTelegramMessage(DeliveryIdChars(runs[r].delivery_id)).inline_keyboard

\* what Slack posts to /webhook/feedback for a click on a button of the message
\* and for a reply in its thread
SlackClicks(r) ==
  LET elements == FormatSlackMessage(DeliveryIdText(runs[r].delivery_id)).elements
  IN { FeedbackBody("", "",
                    PayloadField("string",
                                 JsonStringify(Interactive(<< elements[i] >>, "U1")),
                                 JsonNull),
                    NoObject, NoObject, NoObject, "", "") : i \in DOMAIN elements }

SlackReplies(r) ==
  { FeedbackBody("event_callback", "", NoPayloadField, Event("hi", ThreadTs(r), "U1"),
                 NoObject, NoObject, "", "") }

\* what Telegram posts to /webhook/telegram for a click on a button of the
\* message and for a reply to it
TelegramClicks(r) ==
  { FeedbackBody("", "", NoPayloadField, NoObject,
                 CallbackQuery(TRUE, Keyboard(r)[i], "7", MessageId(r)),
                 NoObject, "", "") : i \in DOMAIN Keyboard(r) }

TelegramReplies(r) ==
  { FeedbackBody("", "", NoPayloadField, NoObject, NoObject,
                 Message("hi", TRUE, Base36[MessageId(r) + 1], "7"), "", "") }

\* another feedback request is taken while the log has room
TakesFeedback == feedbackReq.pc # "notify" /\ Len(feedbackLog.feedback) < MaxFeedback

\* the rep clicks a button of a delivered Slack message, or replies in its thread
SlackFeedback ==
  \E r \in DOMAIN runs :
    /\ Delivered(r) /\ runs[r].sent = "slack"
    /\ TakesFeedback
    /\ \E body \in SlackClicks(r) \cup SlackReplies(r) : FeedbackRoute(body)

\* the rep clicks a button of a delivered Telegram message, or replies to it
TelegramUpdate ==
  \E r \in DOMAIN runs :
    /\ Delivered(r) /\ runs[r].sent = "telegram"
    /\ TakesFeedback
    /\ \E body \in TelegramClicks(r) \cup TelegramReplies(r) : TelegramRoute(body)

ChatConfigs ==
  { WithPmmSlackId(Config("slack", "xoxb", "", "", ""), "UP"),
    Config("telegram", "", "tg", "", "P1") }
ChatStages == { "Negotiation" }
ChatCrmIds == { "UC" }
ChatSendResults == { "ok" }
AckResults == { "ok", "throws" }

(***************************************************************************)
(* Sync endpoints: authorisation, shape validation, overwrite               *)
(***************************************************************************)
\* req.headers.authorization: absent, or a string kept by its characters
NoHeader == [present |-> FALSE, text |-> <<>>]

AuthHeader(text) == [present |-> TRUE, text |-> text]

BearerPrefix == << "B", "e", "a", "r", "e", "r", " " >>

StartsWith(text, prefix) ==
  Len(text) >= Len(prefix) /\ SubSeq(text, 1, Len(prefix)) = prefix

\* authHeader.slice(7)
Token(text) == Text(SubSeq(text, Len(BearerPrefix) + 1, Len(text)))

\* req.body: the array fields it has, whether it has a truthy _meta, and the
\* knowledge base and the reps it would write
SyncBody(arrays, hasMeta, kbBody, repsBody) ==
  [arrays |-> arrays, hasMeta |-> hasMeta, kb |-> kbBody, reps |-> repsBody]

\* the array field the route asks for
RequiredArray(file) == IF file = "kb" THEN "case_studies" ELSE "reps"

ValidShape(file, body) == RequiredArray(file) \in body.arrays /\ body.hasMeta

SyncStatusHeaderBeforeSecret(config, header, file, body, write) ==
  IF ~header.present \/ ~StartsWith(header.text, BearerPrefix) THEN 401
  ELSE IF config.syncSecret = "" THEN 503
  ELSE IF Token(header.text) # config.syncSecret THEN 403
  ELSE IF ~ValidShape(file, body) THEN 400
  ELSE IF write = "throws" THEN 500
  ELSE 200

\* the status the auth middleware and the route answer with
SyncStatus(config, header, file, body, write) ==
  IF config.syncSecret = "" THEN 503
  ELSE IF ~header.present \/ ~StartsWith(header.text, BearerPrefix) THEN 401
  ELSE IF Token(header.text) # config.syncSecret THEN 403
  ELSE IF ~ValidShape(file, body) THEN 400
  ELSE IF write = "throws" THEN 500
  ELSE 200

SyncReq(file, header, body, write, status) ==
  [file |-> file, header |-> header, body |-> body, write |-> write, status |-> status]

NoSyncReq == SyncReq("none", NoHeader, SyncBody({}, FALSE, EMPTY_KB, <<>>), "ok", 0)

\* PUT /api/kb and PUT /api/rep-directory behind the auth middleware; writeFileSync
\* writes the body, or throws and leaves the file
SyncPut(files, headers, bodies, writes) ==
  \E file \in files, header \in headers, body \in bodies, write \in writes :
    LET status == SyncStatus(cfg, header, file, body, write)
    IN /\ syncReq' = SyncReq(file, header, body, write, status)
       /\ IF status = 200 /\ file = "kb"
            THEN kb' = body.kb /\ UNCHANGED <<issued, lastOp, repVars>>
          ELSE IF status = 200
            THEN /\ repDir' = body.reps
                 /\ lastRepOp' = RepOp("sync", NoRep)
                 /\ UNCHANGED kbVars
          ELSE UNCHANGED <<kbVars, repVars>>

\* what is sent to the sync endpoints
SyncConfigs ==
  { Config("slack", "xoxb", "", "", ""),
    WithSyncSecret(Config("slack", "xoxb", "", "", ""), "") }

SyncFiles == { "kb", "rep-directory" }

SyncHeaders ==
  { NoHeader,
    AuthHeader(BearerPrefix \o << "S" >>),
    AuthHeader(BearerPrefix \o << "W" >>),
    AuthHeader(BearerPrefix),
    AuthHeader(<< "B", "e", "a", "r", "e", "r" >>),
    AuthHeader(<< "B", "a", "s", "i", "c", " ", "S" >>) }

SyncBodies ==
  { SyncBody({}, FALSE, EMPTY_KB, <<>>), SyncBody({}, TRUE, EMPTY_KB, <<>>) }
    \cup { SyncBody({"case_studies"}, hasMeta, k, <<>>) :
             hasMeta \in BOOLEAN, k \in PushedKBs }
    \cup { SyncBody({"reps"}, hasMeta, EMPTY_KB, d) :
             hasMeta \in BOOLEAN, d \in ServerSyncDirectories \ { <<>> } }

SyncWrites == { "ok", "throws" }

(***************************************************************************)
(* Specifications                                                           *)
(***************************************************************************)
\* the curation tools and the rep directory start from the files as first created:
\* an empty knowledge base and an empty rep directory
Init ==
  /\ kb = EMPTY_KB
  /\ issued = {}
  /\ lastOp = [tool |-> "none", id |-> NoId, wrote |-> Counts(EMPTY_KB)]
  /\ repDir = <<>>
  /\ lastRepOp = RepOp("none", NoRep)
  /\ cfg = Config("slack", "xoxb", "", "", "")
  /\ runs = [r \in 1..MaxRuns |-> IdleRun]
  /\ counter = 0
  /\ feedbackLog = EMPTY_LOG
  /\ cached = NoLookup
  /\ rawInput = RawInput("undefined", "", NoPayload, NoPayload)
  /\ parsed = NotParsed
  /\ extracted = NotExtracted
  /\ templateArgs = NoTemplateArgs
  /\ templateResult = NotBuilt
  /\ feedbackReq = NoFeedbackReq
  /\ syncReq = NoSyncReq
  /\ keyboards = NoKeyboards

NextKB ==
  \/ AddCaseStudy /\ UNCHANGED <<repVars, srvVars, fnVars>>
  \/ AddCompetitor /\ UNCHANGED <<repVars, srvVars, fnVars>>
  \/ AddObjection /\ UNCHANGED <<repVars, srvVars, fnVars>>
  \/ SetMethodology /\ UNCHANGED <<repVars, srvVars, fnVars>>
  \/ RemoveEntry /\ UNCHANGED <<repVars, srvVars, fnVars>>

SpecKB == Init /\ [][NextKB]_vars

NextRep ==
  \/ AddRep(RepNames, SlackIds, TelegramIds, Timestamps) /\ UNCHANGED <<kbVars, srvVars, fnVars>>
  \/ RemoveRep /\ UNCHANGED <<kbVars, srvVars, fnVars>>
  \/ SyncPutRepDirectory(SyncDirectories) /\ UNCHANGED <<kbVars, srvVars, fnVars>>

SpecRep == Init /\ [][NextRep]_vars

\* the webhook server as createApp leaves it, with freshly created data files
InitServer ==
  /\ kb = EMPTY_KB
  /\ issued = {}
  /\ lastOp = [tool |-> "none", id |-> NoId, wrote |-> Counts(EMPTY_KB)]
  /\ repDir = <<>>
  /\ lastRepOp = RepOp("none", NoRep)
  /\ cfg \in Configs
  /\ runs = [r \in 1..MaxRuns |-> IdleRun]
  /\ counter = 0
  /\ feedbackLog = EMPTY_LOG
  /\ cached = NoLookup
  /\ rawInput = RawInput("undefined", "", NoPayload, NoPayload)
  /\ parsed = NotParsed
  /\ extracted = NotExtracted
  /\ templateArgs = NoTemplateArgs
  /\ templateResult = NotBuilt
  /\ feedbackReq = NoFeedbackReq
  /\ syncReq = NoSyncReq
  /\ keyboards = NoKeyboards

NextServer ==
  \/ CrmWebhook(WebhookStages, DealEmails, CrmIds, DealNames)
       /\ UNCHANGED <<kbVars, repVars, fnVars>>
  \/ LookupDone(LookupResults, LookupIds, LookupNames, Timestamps)
       /\ UNCHANGED <<kbVars, fnVars>>
  \/ ClaudeDone(ClaudeResults) /\ UNCHANGED <<kbVars, repVars, fnVars>>
  \/ SendDone(SendResults) /\ UNCHANGED <<kbVars, repVars, fnVars>>
  \/ SyncPutKb(KbBodies) /\ UNCHANGED <<repVars, srvVars, fnVars>>
  \/ /\ SyncPutRepDirectory(ServerSyncDirectories)
     /\ cached' = NoLookup
     /\ UNCHANGED <<kbVars, cfg, runs, counter, feedbackLog, fnVars>>

SpecServer == InitServer /\ [][NextServer]_vars

\* the CRM webhook with its two continuations, enablement and outcome
InitCrm ==
  /\ kb = EMPTY_KB
  /\ issued = {}
  /\ lastOp = [tool |-> "none", id |-> NoId, wrote |-> Counts(EMPTY_KB)]
  /\ repDir = <<>>
  /\ lastRepOp = RepOp("none", NoRep)
  /\ cfg \in Configs
  /\ runs = [r \in 1..MaxRuns |-> IdleRun]
  /\ counter = 0
  /\ feedbackLog = EMPTY_LOG
  /\ cached = NoLookup
  /\ rawInput = RawInput("undefined", "", NoPayload, NoPayload)
  /\ parsed = NotParsed
  /\ extracted = NotExtracted
  /\ templateArgs = NoTemplateArgs
  /\ templateResult = NotBuilt
  /\ feedbackReq = NoFeedbackReq
  /\ syncReq = NoSyncReq
  /\ keyboards = NoKeyboards

NextCrm ==
  \/ CrmWebhook(CrmStages, CrmEmails, CrmIds, CrmDealNames)
       /\ UNCHANGED <<kbVars, repVars, fnVars>>
  \/ LookupDone(CrmLookupResults, CrmLookupIds, LookupNames, Timestamps)
       /\ UNCHANGED <<kbVars, fnVars>>
  \/ ClaudeDone(ClaudeResults) /\ UNCHANGED <<kbVars, repVars, fnVars>>
  \/ SendDone(CrmSendResults) /\ UNCHANGED <<kbVars, repVars, fnVars>>
  \/ NotifyDone(NotifyResults) /\ UNCHANGED <<kbVars, repVars, fnVars>>
  \/ SyncPutKb(CrmKbBodies) /\ UNCHANGED <<repVars, srvVars, fnVars>>

SpecCrm == InitCrm /\ [][NextCrm]_vars

\* the continuations that append to the feedback log, on a server whose rep is
\* reached by the id the CRM sends
InitLog ==
  /\ kb = EMPTY_KB
  /\ issued = {}
  /\ lastOp = [tool |-> "none", id |-> NoId, wrote |-> Counts(EMPTY_KB)]
  /\ repDir = <<>>
  /\ lastRepOp = RepOp("none", NoRep)
  /\ cfg \in LogConfigs
  /\ runs = [r \in 1..MaxRequests |-> IdleRun]
  /\ counter = 0
  /\ feedbackLog = EMPTY_LOG
  /\ cached = NoLookup
  /\ rawInput = RawInput("undefined", "", NoPayload, NoPayload)
  /\ parsed = NotParsed
  /\ extracted = NotExtracted
  /\ templateArgs = NoTemplateArgs
  /\ templateResult = NotBuilt
  /\ feedbackReq = NoFeedbackReq
  /\ syncReq = NoSyncReq
  /\ keyboards = NoKeyboards

NextLog ==
  \/ CrmWebhook(LogStages, CrmEmails, LogCrmIds, LogDealNames)
       /\ UNCHANGED <<kbVars, repVars, fnVars>>
  \/ ClaudeDone(LogClaudeResults) /\ UNCHANGED <<kbVars, repVars, fnVars>>
  \/ SendDone(CrmSendResults) /\ UNCHANGED <<kbVars, repVars, fnVars>>
  \/ NotifyDone(NotifyResults) /\ UNCHANGED <<kbVars, repVars, fnVars>>
  \/ SyncPutKb(CrmKbBodies) /\ UNCHANGED <<repVars, srvVars, fnVars>>

SpecLog == InitLog /\ [][NextLog]_vars

\* the normaliser alone, given any of the request bodies
InitParse ==
  /\ kb = EMPTY_KB
  /\ issued = {}
  /\ lastOp = [tool |-> "none", id |-> NoId, wrote |-> Counts(EMPTY_KB)]
  /\ repDir = <<>>
  /\ lastRepOp = RepOp("none", NoRep)
  /\ cfg = Config("slack", "xoxb", "", "", "")
  /\ runs = [r \in 1..MaxRuns |-> IdleRun]
  /\ counter = 0
  /\ feedbackLog = EMPTY_LOG
  /\ cached = NoLookup
  /\ rawInput \in RawInputs
  /\ parsed = NotParsed
  /\ extracted = NotExtracted
  /\ templateArgs = NoTemplateArgs
  /\ templateResult = NotBuilt
  /\ feedbackReq = NoFeedbackReq
  /\ syncReq = NoSyncReq
  /\ keyboards = NoKeyboards

NextParse == Parse /\ UNCHANGED <<kbVars, repVars, srvVars, contentVars, feedbackVars, syncVars>>

SpecParse == InitParse /\ [][NextParse]_vars

\* the stage extractor and the normaliser, given any of the stage payloads
InitStage ==
  /\ kb = EMPTY_KB
  /\ issued = {}
  /\ lastOp = [tool |-> "none", id |-> NoId, wrote |-> Counts(EMPTY_KB)]
  /\ repDir = <<>>
  /\ lastRepOp = RepOp("none", NoRep)
  /\ cfg = Config("slack", "xoxb", "", "", "")
  /\ runs = [r \in 1..MaxRuns |-> IdleRun]
  /\ counter = 0
  /\ feedbackLog = EMPTY_LOG
  /\ cached = NoLookup
  /\ rawInput \in StageInputs
  /\ parsed = NotParsed
  /\ extracted = NotExtracted
  /\ templateArgs = NoTemplateArgs
  /\ templateResult = NotBuilt
  /\ feedbackReq = NoFeedbackReq
  /\ syncReq = NoSyncReq
  /\ keyboards = NoKeyboards

NextStage ==
  \/ Extract /\ UNCHANGED <<kbVars, repVars, srvVars, contentVars, feedbackVars, syncVars>>
  \/ Parse /\ UNCHANGED <<kbVars, repVars, srvVars, contentVars, feedbackVars, syncVars>>

SpecStage == InitStage /\ [][NextStage]_vars

\* findBestCaseStudy alone, given any deal and any list of case studies
InitCaseStudy ==
  /\ kb = EMPTY_KB
  /\ issued = {}
  /\ lastOp = [tool |-> "none", id |-> NoId, wrote |-> Counts(EMPTY_KB)]
  /\ repDir = <<>>
  /\ lastRepOp = RepOp("none", NoRep)
  /\ cfg = Config("slack", "xoxb", "", "", "")
  /\ runs = [r \in 1..MaxRuns |-> IdleRun]
  /\ counter = 0
  /\ feedbackLog = EMPTY_LOG
  /\ cached = NoLookup
  /\ rawInput = RawInput("undefined", "", NoPayload, NoPayload)
  /\ parsed = NotParsed
  /\ extracted = NotExtracted
  /\ templateArgs \in CaseStudyArgs
  /\ templateResult = NotBuilt
  /\ feedbackReq = NoFeedbackReq
  /\ syncReq = NoSyncReq
  /\ keyboards = NoKeyboards

NextCaseStudy ==
  CallFindBestCaseStudy /\ UNCHANGED <<kbVars, repVars, srvVars, parseVars, feedbackVars, syncVars>>

SpecCaseStudy == InitCaseStudy /\ [][NextCaseStudy]_vars

\* findRelevantObjections alone, given any deal and any objection library
InitObjections ==
  /\ kb = EMPTY_KB
  /\ issued = {}
  /\ lastOp = [tool |-> "none", id |-> NoId, wrote |-> Counts(EMPTY_KB)]
  /\ repDir = <<>>
  /\ lastRepOp = RepOp("none", NoRep)
  /\ cfg = Config("slack", "xoxb", "", "", "")
  /\ runs = [r \in 1..MaxRuns |-> IdleRun]
  /\ counter = 0
  /\ feedbackLog = EMPTY_LOG
  /\ cached = NoLookup
  /\ rawInput = RawInput("undefined", "", NoPayload, NoPayload)
  /\ parsed = NotParsed
  /\ extracted = NotExtracted
  /\ templateArgs \in ObjectionArgs
  /\ templateResult = NotBuilt
  /\ feedbackReq = NoFeedbackReq
  /\ syncReq = NoSyncReq
  /\ keyboards = NoKeyboards

NextObjections ==
  CallFindRelevantObjections
    /\ UNCHANGED <<kbVars, repVars, srvVars, parseVars, feedbackVars, syncVars>>

SpecObjections == InitObjections /\ [][NextObjections]_vars

\* buildTemplateEnablement alone, given any deal and any knowledge base
InitTemplate ==
  /\ kb = EMPTY_KB
  /\ issued = {}
  /\ lastOp = [tool |-> "none", id |-> NoId, wrote |-> Counts(EMPTY_KB)]
  /\ repDir = <<>>
  /\ lastRepOp = RepOp("none", NoRep)
  /\ cfg = Config("slack", "xoxb", "", "", "")
  /\ runs = [r \in 1..MaxRuns |-> IdleRun]
  /\ counter = 0
  /\ feedbackLog = EMPTY_LOG
  /\ cached = NoLookup
  /\ rawInput = RawInput("undefined", "", NoPayload, NoPayload)
  /\ parsed = NotParsed
  /\ extracted = NotExtracted
  /\ templateArgs \in BuildArgs
  /\ templateResult = NotBuilt
  /\ feedbackReq = NoFeedbackReq
  /\ syncReq = NoSyncReq
  /\ keyboards = NoKeyboards

NextTemplate ==
  CallBuildTemplateEnablement
    /\ UNCHANGED <<kbVars, repVars, srvVars, parseVars, feedbackVars, syncVars>>

SpecTemplate == InitTemplate /\ [][NextTemplate]_vars

\* buildPrompt alone, given any deal
InitPrompt ==
  /\ kb = EMPTY_KB
  /\ issued = {}
  /\ lastOp = [tool |-> "none", id |-> NoId, wrote |-> Counts(EMPTY_KB)]
  /\ repDir = <<>>
  /\ lastRepOp = RepOp("none", NoRep)
  /\ cfg = Config("slack", "xoxb", "", "", "")
  /\ runs = [r \in 1..MaxRuns |-> IdleRun]
  /\ counter = 0
  /\ feedbackLog = EMPTY_LOG
  /\ cached = NoLookup
  /\ rawInput = RawInput("undefined", "", NoPayload, NoPayload)
  /\ parsed = NotParsed
  /\ extracted = NotExtracted
  /\ templateArgs \in PromptArgs
  /\ templateResult = NotBuilt
  /\ feedbackReq = NoFeedbackReq
  /\ syncReq = NoSyncReq
  /\ keyboards = NoKeyboards

NextPrompt ==
  CallBuildPrompt /\ UNCHANGED <<kbVars, repVars, srvVars, parseVars, feedbackVars, syncVars>>

SpecPrompt == InitPrompt /\ [][NextPrompt]_vars

\* the feedback webhook, given any of the bodies
InitFeedback ==
  /\ kb = EMPTY_KB
  /\ issued = {}
  /\ lastOp = [tool |-> "none", id |-> NoId, wrote |-> Counts(EMPTY_KB)]
  /\ repDir = <<>>
  /\ lastRepOp = RepOp("none", NoRep)
  /\ cfg \in LogConfigs
  /\ runs = [r \in 1..MaxRuns |-> IdleRun]
  /\ counter = 0
  /\ feedbackLog = EMPTY_LOG
  /\ cached = NoLookup
  /\ rawInput = RawInput("undefined", "", NoPayload, NoPayload)
  /\ parsed = NotParsed
  /\ extracted = NotExtracted
  /\ templateArgs = NoTemplateArgs
  /\ templateResult = NotBuilt
  /\ feedbackReq = NoFeedbackReq
  /\ syncReq = NoSyncReq
  /\ keyboards = NoKeyboards

NextFeedback ==
  \/ FeedbackWebhook(FeedbackBodies) /\ UNCHANGED <<kbVars, repVars, parseVars, contentVars, syncVars>>
  \/ FeedbackNotifyDone(NotifyResults)
       /\ UNCHANGED <<kbVars, repVars, parseVars, contentVars, syncVars>>

SpecFeedback == InitFeedback /\ [][NextFeedback]_vars

\* the sync endpoints of a server with and without a sync secret
InitSync ==
  /\ kb = EMPTY_KB
  /\ issued = {}
  /\ lastOp = [tool |-> "none", id |-> NoId, wrote |-> Counts(EMPTY_KB)]
  /\ repDir = <<>>
  /\ lastRepOp = RepOp("none", NoRep)
  /\ cfg \in SyncConfigs
  /\ runs = [r \in 1..MaxRuns |-> IdleRun]
  /\ counter = 0
  /\ feedbackLog = EMPTY_LOG
  /\ cached = NoLookup
  /\ rawInput = RawInput("undefined", "", NoPayload, NoPayload)
  /\ parsed = NotParsed
  /\ extracted = NotExtracted
  /\ templateArgs = NoTemplateArgs
  /\ templateResult = NotBuilt
  /\ feedbackReq = NoFeedbackReq
  /\ syncReq = NoSyncReq
  /\ keyboards = NoKeyboards

NextSync ==
  SyncPut(SyncFiles, SyncHeaders, SyncBodies, SyncWrites)
    /\ UNCHANGED <<srvVars, parseVars, contentVars, feedbackVars>>

SpecSync == InitSync /\ [][NextSync]_vars

\* deliveries to a rep, and the rep's clicks and replies
InitChat ==
  /\ kb \in CrmKbBodies
  /\ issued = {}
  /\ lastOp = [tool |-> "none", id |-> NoId, wrote |-> Counts(EMPTY_KB)]
  /\ repDir = <<>>
  /\ lastRepOp = RepOp("none", NoRep)
  /\ cfg \in ChatConfigs
  /\ runs = [r \in 1..MaxRuns |-> IdleRun]
  /\ counter = 0
  /\ feedbackLog = EMPTY_LOG
  /\ cached = NoLookup
  /\ rawInput = RawInput("undefined", "", NoPayload, NoPayload)
  /\ parsed = NotParsed
  /\ extracted = NotExtracted
  /\ templateArgs = NoTemplateArgs
  /\ templateResult = NotBuilt
  /\ feedbackReq = NoFeedbackReq
  /\ syncReq = NoSyncReq
  /\ keyboards = NoKeyboards

NextChat ==
  \/ CrmWebhook(ChatStages, CrmEmails, ChatCrmIds, DealNames)
       /\ UNCHANGED <<kbVars, repVars, fnVars>>
  \/ SendDone(ChatSendResults) /\ UNCHANGED <<kbVars, repVars, fnVars>>
  \/ SlackFeedback /\ UNCHANGED <<kbVars, repVars, parseVars, contentVars, syncVars>>
  \/ TelegramUpdate /\ UNCHANGED <<kbVars, repVars, parseVars, contentVars, syncVars>>
  \/ AckDone(AckResults) /\ UNCHANGED <<kbVars, repVars, parseVars, contentVars, syncVars>>
  \/ FeedbackNotifyDone(NotifyResults)
       /\ UNCHANGED <<kbVars, repVars, parseVars, contentVars, syncVars>>

SpecChat == InitChat /\ [][NextChat]_vars

\* template-composed deliveries of deals with and without a competitor
InitSurfaced ==
  /\ kb = EMPTY_KB
  /\ issued = {}
  /\ lastOp = [tool |-> "none", id |-> NoId, wrote |-> Counts(EMPTY_KB)]
  /\ repDir = <<>>
  /\ lastRepOp = RepOp("none", NoRep)
  /\ cfg = Config("slack", "xoxb", "", "", "")
  /\ runs = [r \in 1..MaxRuns |-> IdleRun]
  /\ counter = 0
  /\ feedbackLog = EMPTY_LOG
  /\ cached = NoLookup
  /\ rawInput = RawInput("undefined", "", NoPayload, NoPayload)
  /\ parsed = NotParsed
  /\ extracted = NotExtracted
  /\ templateArgs \in SurfacedArgs
  /\ templateResult = NotBuilt
  /\ feedbackReq = NoFeedbackReq
  /\ syncReq = NoSyncReq
  /\ keyboards = NoKeyboards

NextSurfaced ==
  DeliverTemplate
    /\ UNCHANGED <<kbVars, repVars, srvVars, parseVars, feedbackVars, syncVars>>

SpecSurfaced == InitSurfaced /\ [][NextSurfaced]_vars

(***************************************************************************)
(* Claims about the knowledge base and its identifiers                      *)
(***************************************************************************)
AddTools == {"add_case_study", "add_competitor", "add_objection"}
WriteTools == AddTools \cup {"set_methodology", "remove_entry"}

CollectionOf(k, tool) ==
  CASE tool = "add_case_study" -> k.case_studies
    [] tool = "add_competitor" -> k.competitor_positioning
    [] OTHER -> k.objection_library

PrefixOf(tool) ==
  CASE tool = "add_case_study" -> "cs"
    [] tool = "add_competitor" -> "cp"
    [] OTHER -> "ob"

\* C3: after a writeKB followed by readKB the entry counts are the ones written and
\* _meta.configured is true if and only if there is at least one case study.
C3_ConfiguredIffCaseStudies ==
  lastOp.tool \in WriteTools =>
    /\ Counts(ReadKB(kb)) = lastOp.wrote
    /\ (ReadKB(kb).meta.configured = "true") <=> (Len(ReadKB(kb).case_studies) > 0)

\* C4: an id handed out by generateId is never handed out again, also after the
\* entry that carried it was removed.
C4_IdNeverReused ==
  [][lastOp'.tool \in AddTools /\ kb' # kb => lastOp'.id \notin issued]_vars

\* the value of a three-digit sequence number
SeqNumOf(id) == 100 * id.digits[1] + 10 * id.digits[2] + id.digits[3]

SetMax(S) == IF S = {} THEN 0 ELSE CHOOSE m \in S : \A x \in S : x <= m

IdsDistinct(coll) ==
  \A i, j \in DOMAIN coll : i # j => coll[i].id # coll[j].id

C5_Distinct ==
  /\ IdsDistinct(kb.case_studies)
  /\ IdsDistinct(kb.competitor_positioning)
  /\ IdsDistinct(kb.objection_library)

C5_NextAfterHighest ==
  lastOp'.tool \in AddTools /\ kb' # kb =>
    LET before == CollectionOf(kb, lastOp'.tool)
        highest == SetMax({ SeqNumOf(before[i].id) : i \in DOMAIN before })
    IN /\ lastOp'.id.prefix = PrefixOf(lastOp'.tool)
       /\ Len(lastOp'.id.digits) = 3
       /\ SeqNumOf(lastOp'.id) = highest + 1
       /\ CollectionOf(kb', lastOp'.tool) =
            Append(before, CollectionOf(kb', lastOp'.tool)[Len(before) + 1])
       /\ CollectionOf(kb', lastOp'.tool)[Len(before) + 1].id = lastOp'.id

\* C5: in every knowledge base reachable from the empty one by add and remove_entry
\* calls the ids of each collection are pairwise distinct, and the id an add hands
\* out is the prefix plus one more than the highest sequence number present (001
\* for an empty collection).
C5_IdsDistinctAndSequential == [](C5_Distinct) /\ [][C5_NextAfterHighest]_vars

\* an add into a collection whose lowest id was removed: the ids go on from the highest
C5_Witness ==
  /\ lastOp.tool = "add_case_study"
  /\ Len(kb.case_studies) = 2
  /\ kb.case_studies[1].id = MkId("cs", <<0, 0, 2>>)
  /\ kb.case_studies[2].id = MkId("cs", <<0, 0, 3>>)

(***************************************************************************)
(* Claims about the enablement continuation                                 *)
(***************************************************************************)
Requests == 1..MaxRuns

\* the request was classified as enablement and its continuation has begun
Enablement(run) == run.pc # "idle" /\ ClassifyStage(run.stage) = "enablement"

\* the DeliveryEntries written for request r
DeliveriesOf(r) ==
  { i \in DOMAIN feedbackLog.deliveries : feedbackLog.deliveries[i].run = r }

\* the knowledge base a continuation read does not pass the gate
GateFalse(seen) == seen.read /\ (seen.configured # "true" \/ seen.case_studies = 0)

\* C1: when the knowledge base read by an enablement continuation is not configured
\* or has no case study, that continuation generates no prompt or template content,
\* sends no message and appends no DeliveryEntry, whatever pushes and events came
\* before.
C1_GateFalseNoContent ==
  \A r \in Requests :
    Enablement(runs[r]) /\ GateFalse(runs[r].kbSeen) =>
      /\ runs[r].pc = "done"
      /\ runs[r].generated = "none"
      /\ runs[r].sent = "none"
      /\ DeliveriesOf(r) = {}

\* a continuation stopped by a knowledge base that is marked configured and has no
\* case study
C1_Witness ==
  \E r \in Requests :
    /\ runs[r].out = "blocked"
    /\ runs[r].deal.identity_resolved
    /\ runs[r].kbSeen.configured = "true"
    /\ runs[r].kbSeen.case_studies = 0

\* C2: an enablement continuation whose deal is unresolved after identity resolution
\* has ended without reading the knowledge base, generating content, sending or
\* logging, and with no lookup or other step left to run; every DeliveryEntry was
\* written for a resolved deal.
C2_UnresolvedEndsRun ==
  /\ \A r \in Requests :
       Enablement(runs[r]) /\ ~runs[r].deal.identity_resolved =>
         /\ runs[r].pc = "done"
         /\ runs[r].lookup = "none"
         /\ ~runs[r].kbSeen.read
         /\ runs[r].generated = "none"
         /\ runs[r].sent = "none"
         /\ DeliveriesOf(r) = {}
  /\ \A i \in DOMAIN feedbackLog.deliveries :
       runs[feedbackLog.deliveries[i].run].deal.identity_resolved

\* a deal with an email and no Telegram id in the directory, dropped while the
\* knowledge base on file would have passed the gate
C2_Witness ==
  \E r \in Requests :
    /\ runs[r].out = "unresolved"
    /\ runs[r].deal.resolution_method = "no_telegram_id"
    /\ ~ReadKBThrows(kb)
    /\ ContextGate(ReadKB(kb))

\* the slack ids the directory stores for an email, compared case-insensitively
StoredSlackIds(reps, email) ==
  { reps[i].slack_id :
      i \in { j \in DOMAIN reps : SameEmail(reps[j].email, email) /\ reps[j].slack_id # "" } }

\* the synchronous part of the chain, for the request that arrives in this step
C6_ChainAtArrival(r) ==
  LET deal == runs'[r].deal
      crm == runs'[r].crm_id
      stored == StoredSlackIds(repDir, deal.rep_email)
  IN IF crm # ""
       THEN /\ deal.resolution_method = "crm_field"
            /\ deal.rep_slack_id = crm
            /\ deal.identity_resolved
            /\ ~runs'[r].dirRead
            /\ repDir' = repDir
            /\ runs'[r].lookup = "none"
     ELSE IF deal.rep_email # <<>> /\ stored # {}
       THEN /\ deal.resolution_method = "rep_directory"
            /\ stored = {deal.rep_slack_id}
            /\ deal.identity_resolved
            /\ repDir' = repDir
            /\ runs'[r].lookup = "none"
     ELSE IF deal.rep_email # <<>>
       THEN /\ deal.resolution_method = "email_fallback"
            /\ deal.rep_slack_id = Text(deal.rep_email)
            /\ deal.identity_resolved
            /\ repDir' = repDir
            /\ (runs'[r].pc = "lookup") <=> (cfg.slackBotToken # "")
     ELSE /\ deal.resolution_method = "unresolved"
          /\ ~deal.identity_resolved
          /\ runs'[r].pc = "done"
          /\ runs'[r].lookup = "none"

\* the platform lookup, for the request whose lookup ends in this step
C6_ChainAfterLookup(r) ==
  LET deal == runs'[r].deal
  IN IF runs'[r].lookup = "ok"
       THEN /\ deal.resolution_method = "slack_api_lookup"
            /\ runs'[r].lookupId # ""
            /\ deal.rep_slack_id = runs'[r].lookupId
            /\ deal.identity_resolved
       ELSE /\ deal.resolution_method = "email_fallback"
            /\ deal.rep_slack_id = Text(deal.rep_email)
            /\ deal.identity_resolved
            /\ repDir' = repDir

\* C6: on the Slack channel the resolution is the first applicable step of the
\* chain: a CRM-supplied id gives crm_field with that id, the directory neither
\* read nor written; else a directory entry for the email (case-insensitive) with a
\* slack id gives rep_directory with the stored id; else a lookup is issued exactly
\* when a bot token is set, a successful one gives slack_api_lookup with the
\* returned id, a failed or thrown one (or none) leaves email_fallback with the
\* email as id, resolved, the directory unchanged; with no email the deal is
\* unresolved.
C6_SlackResolutionChain ==
  [][\A r \in Requests :
       cfg.channel = "slack" =>
         /\ (runs[r].pc = "idle" /\ Enablement(runs'[r])) => C6_ChainAtArrival(r)
         /\ (runs[r].pc = "lookup" /\ runs'[r].pc # "lookup") => C6_ChainAfterLookup(r)]_vars

\* a CRM id has won over a directory entry of the same rep, and a failed lookup
\* has left the email fallback
C6_Witness ==
  \E r, q \in Requests :
    /\ runs[r].deal.resolution_method = "crm_field"
    /\ StoredSlackIds(repDir, runs[r].deal.rep_email) # {}
    /\ runs[q].lookup \in {"not_ok", "throws"}
    /\ runs[q].deal.resolution_method = "email_fallback"

C7_DirectoryHoldsLookup ==
  cached # NoLookup =>
    \E i \in DOMAIN repDir :
      SameEmail(repDir[i].email, cached.email) /\ repDir[i].slack_id = cached.id

C7_LaterRunUsesDirectory ==
  \A r \in Requests :
    /\ runs[r].pc = "idle"
    /\ Enablement(runs'[r])
    /\ runs'[r].crm_id = ""
    /\ cached # NoLookup
    /\ SameEmail(runs'[r].deal.rep_email, cached.email)
    => /\ runs'[r].deal.resolution_method = "rep_directory"
       /\ runs'[r].deal.rep_slack_id = cached.id
       /\ runs'[r].deal.identity_resolved
       /\ runs'[r].lookup = "none"
       /\ runs'[r].pc # "lookup"

\* C7: after a successful platform lookup of email e that returned u the directory
\* holds an entry for e with slack_id u, and as long as no push overwrites the
\* directory every later enablement run for e without a CRM id resolves to u by
\* rep_directory and issues no lookup.
C7_LookupCachedForLaterRuns ==
  [](C7_DirectoryHoldsLookup) /\ [][C7_LaterRunUsesDirectory]_vars

\* a later run served from the directory with the id an earlier lookup returned
C7_Witness ==
  \E r, q \in Requests :
    /\ runs[q].lookup = "ok"
    /\ runs[r].lookup = "none"
    /\ runs[r].deal.resolution_method = "rep_directory"
    /\ runs[r].deal.rep_slack_id = runs[q].lookupId
    /\ cached.id = runs[q].lookupId

(***************************************************************************)
(* Claims about the rep directory                                           *)
(***************************************************************************)
\* a step that wrote the rep directory
RepDirWritten == lastRepOp' # lastRepOp \/ repDir' # repDir

HasEmail(reps, email) == \E i \in DOMAIN reps : SameEmail(reps[i].email, email)

MergedField(new, old) == IF new # "" THEN new ELSE old

\* C8: upsertRep of a known email (compared case-insensitively) leaves exactly one
\* entry for it, each field holding the new value when that is non-empty and the old
\* value when it is blank; upsertRep of an unknown email appends one entry; no other
\* entry changes.
C8_UpsertMergesNonEmptyOverOld ==
  [][RepDirWritten /\ lastRepOp'.op = "upsert" =>
      LET rep == lastRepOp'.rep
          known == { i \in DOMAIN repDir : SameEmail(repDir[i].email, rep.email) }
      IN IF known = {}
           THEN repDir' = Append(repDir, rep)
           ELSE /\ Len(repDir') = Len(repDir)
                /\ Cardinality({ i \in DOMAIN repDir' :
                                   SameEmail(repDir'[i].email, rep.email) }) = 1
                /\ \A i \in DOMAIN repDir :
                     IF i \in known
                       THEN /\ repDir'[i].name = MergedField(rep.name, repDir[i].name)
                            /\ repDir'[i].slack_id =
                                 MergedField(rep.slack_id, repDir[i].slack_id)
                            /\ repDir'[i].telegram_chat_id =
                                 MergedField(rep.telegram_chat_id, repDir[i].telegram_chat_id)
                            /\ repDir'[i].registered_at =
                                 MergedField(rep.registered_at, repDir[i].registered_at)
                            /\ repDir'[i].registered_via =
                                 MergedField(rep.registered_via, repDir[i].registered_via)
                       ELSE repDir'[i] = repDir[i]]_vars

\* C9 as claimed: an entry of the rep directory stays until removeRep is called with
\* its email; no other operation, an accepted sync push included, removes it.
C9_OnlyRemoveRepRemoves ==
  [][\A i \in DOMAIN repDir :
       \/ HasEmail(repDir', repDir[i].email)
       \/ lastRepOp'.op = "remove" /\ SameEmail(lastRepOp'.rep.email, repDir[i].email)]_vars

\* C9 as amended: an entry stays until removeRep is called with its email or an
\* accepted PUT /rep-directory replaces the whole directory.
C9_RemovedOnlyByRemoveRepOrSync ==
  [][\A i \in DOMAIN repDir :
       \/ HasEmail(repDir', repDir[i].email)
       \/ lastRepOp'.op = "remove" /\ SameEmail(lastRepOp'.rep.email, repDir[i].email)
       \/ lastRepOp'.op = "sync"]_vars

\* an upsert of another email has left the entry registered before it in place
C9_Witness ==
  /\ lastRepOp.op = "upsert"
  /\ Len(repDir) = 2
  /\ SameEmail(repDir[2].email, lastRepOp.rep.email)
  /\ ~SameEmail(repDir[1].email, lastRepOp.rep.email)

(***************************************************************************)
(* Claims about the CRM payload normaliser                                  *)
(***************************************************************************)
VendorOrder == << "hubspot", "salesforce", "attio", "pipedrive", "close" >>

\* the marker of a vendor; a field that is absent or an empty string is no marker
HasMarker(vendor, p) ==
  CASE vendor = "hubspot" -> p.properties.type = "object"
    [] vendor = "salesforce" -> Truthy(p.StageName) \/ Truthy(p.Name)
    [] vendor = "attio" -> p.attributes.type = "object"
    [] vendor = "pipedrive" -> p.current.type = "object"
    [] vendor = "close" -> Truthy(p.lead) \/ Truthy(p.status_label)

FirstVendor(p) ==
  LET matching == { i \in DOMAIN VendorOrder : HasMarker(VendorOrder[i], p) }
  IN IF matching = {} THEN "generic"
     ELSE VendorOrder[CHOOSE i \in matching : \A j \in matching : i <= j]

\* the name field of a vendor: Attio's name, or title when there is no name;
\* Close's lead.display_name, or lead_name when there is none
NameField(vendor, p) ==
  CASE vendor = "hubspot" -> Get(p.properties, "dealname")
    [] vendor = "salesforce" -> p.Name
    [] vendor = "attio" -> IF Truthy(Get(p.attributes, "name"))
                             THEN Get(p.attributes, "name")
                             ELSE Get(p.attributes, "title")
    [] vendor = "pipedrive" -> Get(p.current, "title")
    [] vendor = "close" -> IF Truthy(Get(p.lead, "display_name"))
                             THEN Get(p.lead, "display_name") ELSE p.lead_name
    [] OTHER -> p.deal_name

\* C10: for every payload, taken from under body when body is set, _crm_type is the
\* first vendor whose marker is there in the order hubspot, salesforce, attio,
\* pipedrive, close, else generic, also when markers of several vendors are there;
\* deal_name is that vendor's name field when it is a non-empty string, else
\* "Unknown Deal".
C10_FirstMarkerWins ==
  parsed # NotParsed =>
    LET p == Unwrap(rawInput)
        name == NameField(FirstVendor(p), p)
    IN /\ parsed.crm_type = FirstVendor(p)
       /\ parsed.deal_name =
            IF name.type = "string" /\ name.str # "" THEN name.str ELSE "Unknown Deal"

\* a wrapped payload with the markers of salesforce, attio and close
C10_Witness ==
  /\ parsed.crm_type = "salesforce"
  /\ parsed.deal_name = "S"
  /\ rawInput.body.type = "object"
  /\ rawInput.body.payload.attributes.type = "object"
  /\ Truthy(rawInput.body.payload.status_label)
  /\ rawInput.body.payload.properties.type = "string"

\* C11: for every payload, wrapped or not, extractStage gives the deal_stage that
\* parseCrmPayload gives, so a request that extractStage classifies as enablement
\* has a normalised deal whose deal_stage is "Proposal Sent" or "Negotiation".
C11_ExtractStageIsParsedStage ==
  (extracted.called /\ parsed # NotParsed) =>
    /\ extracted.stage = parsed.deal_stage
    /\ ClassifyStage(extracted.stage) = "enablement"
         => ClassifyStage(parsed.deal_stage) = "enablement"

(***************************************************************************)
(* Claims about the CRM webhook handler                                     *)
(***************************************************************************)
\* the class the stage sets give a stage string
StageClass(stage) ==
  CASE stage = "Proposal Sent" \/ stage = "Negotiation" -> "enablement"
    [] stage = "Closed Won" \/ stage = "Closed Lost" -> "outcome"
    [] OTHER -> "skip"

\* C12: classifyStage gives enablement exactly for "Proposal Sent" and
\* "Negotiation", outcome exactly for "Closed Won" and "Closed Lost", skip for every
\* other string; a request starts the enablement continuation only when its stage is
\* an enablement stage, the outcome continuation only when it is an outcome stage,
\* nothing when it is skipped, and never both.
C12_ContinuationFollowsStageClass ==
  \A r \in DOMAIN runs :
    runs[r].pc # "idle" =>
      /\ ClassifyStage(runs[r].stage) = StageClass(runs[r].stage)
      /\ "enablement" \in runs[r].started <=> StageClass(runs[r].stage) = "enablement"
      /\ "outcome" \in runs[r].started <=> StageClass(runs[r].stage) = "outcome"
      /\ Cardinality(runs[r].started) <= 1
      /\ StageClass(runs[r].stage) = "skip" =>
           /\ runs[r].out = "skipped"
           /\ runs[r].events = <<"respond", "extractStage">>

\* a lower-case stage was skipped after an enablement and before an outcome request
C12_Witness ==
  /\ runs[1].started = {"enablement"} /\ runs[1].stage = "Proposal Sent"
  /\ runs[2].started = {} /\ runs[2].stage = "negotiation" /\ runs[2].pc = "done"

(***************************************************************************)
(* Claims about the template matching                                       *)
(***************************************************************************)
ExactIndustry(deal, cs) == ToLowerCase(cs.industry) = ToLowerCase(deal.industry)

OverlappingIndustry(deal, cs) ==
  \/ Includes(ToLowerCase(cs.industry), ToLowerCase(deal.industry))
  \/ Includes(ToLowerCase(deal.industry), ToLowerCase(cs.industry))

\* the score of a case study: exact industry 10, stage among relevant_stages 5,
\* overlapping industry 3 when the industry is not exactly the deal's
StatedCaseStudyScore(deal, cs) ==
  (IF ExactIndustry(deal, cs) THEN 10 ELSE 0)
    + (IF SomeStage(cs.relevant_stages, ToLowerCase(deal.deal_stage)) THEN 5 ELSE 0)
    + (IF ~ExactIndustry(deal, cs) /\ OverlappingIndustry(deal, cs) THEN 3 ELSE 0)

\* C13: given a non-empty list, findBestCaseStudy returns the first entry, in list
\* order, among those of maximal score; so an entry whose industry is exactly the
\* deal's wins over every entry whose industry is not, and an entry is returned
\* also when every score is zero.
C13_FirstOfMaximalScore ==
  (templateResult.fn = "findBestCaseStudy" /\ Len(templateArgs.case_studies) > 0) =>
    LET deal == templateArgs.deal
        list == templateArgs.case_studies
        best == templateResult.caseStudy
    IN /\ best.id \in DOMAIN list /\ list[best.id] = best
       /\ \A i \in DOMAIN list :
            /\ StatedCaseStudyScore(deal, list[i]) <= StatedCaseStudyScore(deal, best)
            /\ StatedCaseStudyScore(deal, list[i]) = StatedCaseStudyScore(deal, best)
                 => best.id <= i
       /\ (\E i \in DOMAIN list : ExactIndustry(deal, list[i])) => ExactIndustry(deal, best)

\* the second of three entries wins: the first has the stage and an overlapping
\* industry, the second and the third the exact industry
C13_Witness ==
  /\ templateResult.fn = "findBestCaseStudy"
  /\ Len(templateArgs.case_studies) = 3
  /\ templateResult.caseStudy.id = 2
  /\ StatedCaseStudyScore(templateArgs.deal, templateArgs.case_studies[1]) = 8
  /\ StatedCaseStudyScore(templateArgs.deal, templateArgs.case_studies[3]) = 10

\* nothing matches, and the first entry is returned with score zero
C13_WitnessZero ==
  /\ templateResult.fn = "findBestCaseStudy"
  /\ templateResult.caseStudy.id = 1
  /\ Len(templateArgs.case_studies) = 2
  /\ \A i \in 1..2 : StatedCaseStudyScore(templateArgs.deal, templateArgs.case_studies[i]) = 0

\* an objection matched the deal when its competitor is the deal's, up to case, or
\* the deal's stage is among its relevant stages
MatchedDeal(deal, ob) ==
  \/ ob.competitor # <<>> /\ ToLowerCase(ob.competitor) = ToLowerCase(deal.competitor)
  \/ SomeStage(ob.relevant_stages, ToLowerCase(deal.deal_stage))

\* a general objection that is in only by its baseline score
OnlyBaseline(deal, ob) == ob.competitor = <<>> /\ ~MatchedDeal(deal, ob)

\* the score of an objection: its competitor is the deal's 10, the deal's stage is
\* relevant 5, and 1 for a general objection that matched neither
StatedObjectionScore(deal, ob) ==
  IF OnlyBaseline(deal, ob) THEN 1
  ELSE (IF ob.competitor # <<>> /\ ToLowerCase(ob.competitor) = ToLowerCase(deal.competitor)
          THEN 10 ELSE 0)
       + (IF SomeStage(ob.relevant_stages, ToLowerCase(deal.deal_stage)) THEN 5 ELSE 0)

\* C14: findRelevantObjections returns at most 3 entries of the library, each of
\* score above 0, by non-increasing score and in library order among equal scores,
\* leaving out only entries that score no more than every entry returned; a general
\* objection in by its baseline score alone never stands before, and never keeps
\* out of the result, an entry that matched the deal's competitor or stage.
C14_TopThreeByScore ==
  templateResult.fn = "findRelevantObjections" =>
    LET deal == templateArgs.deal
        list == templateArgs.objection_library
        top == templateResult.objections
        Score(ob) == StatedObjectionScore(deal, ob)
        returned == { top[i].id : i \in DOMAIN top }
        eligible == { i \in DOMAIN list : Score(list[i]) > 0 }
    IN /\ Len(top) <= 3
       /\ Len(top) = IF Cardinality(eligible) < 3 THEN Cardinality(eligible) ELSE 3
       /\ \A i \in DOMAIN top :
            /\ top[i].id \in DOMAIN list /\ list[top[i].id] = top[i]
            /\ Score(top[i]) > 0
       /\ \A i, j \in DOMAIN top :
            i < j => \/ Score(top[i]) > Score(top[j])
                     \/ Score(top[i]) = Score(top[j]) /\ top[i].id < top[j].id
       /\ \A i \in DOMAIN list, j \in DOMAIN top :
            i \notin returned => Score(list[i]) <= Score(top[j])
       /\ \A i \in DOMAIN top, m \in DOMAIN list :
            (OnlyBaseline(deal, top[i]) /\ MatchedDeal(deal, list[m])) =>
              \E j \in 1..(i - 1) : top[j].id = m

\* four objections, the first general and unmatched, the other three matched: the
\* general one is left out
C14_Witness ==
  /\ templateResult.fn = "findRelevantObjections"
  /\ Len(templateArgs.objection_library) = 4
  /\ OnlyBaseline(templateArgs.deal, templateArgs.objection_library[1])
  /\ \A i \in 2..4 : MatchedDeal(templateArgs.deal, templateArgs.objection_library[i])
  /\ Len(templateResult.objections) = 3
  /\ \A i \in 1..3 : templateResult.objections[i].id # 1

(***************************************************************************)
(* Claims about the template assembly                                       *)
(***************************************************************************)
\* the place of a block in the stated order of the sections
StatedRank(kind) ==
  CASE kind = "objections" -> 1
    [] kind \in {"case_study", "no_case_study"} -> 2
    [] kind \in {"competitor", "no_competitor"} -> 3
    [] kind = "methodology" -> 4
    [] kind = "header" -> 5

WithoutSeparator(text) == SelectSeq(text, LAMBDA b : b.kind # "separator")

Ascending(text) ==
  \A i, j \in DOMAIN text : i < j => StatedRank(text[i].kind) < StatedRank(text[j].kind)

HasHeaderAndSeparator(text) ==
  /\ \E i \in DOMAIN text : text[i].kind = "header"
  /\ \E i \in DOMAIN text : text[i].kind = "separator"

\* C15 as stated: the output of buildTemplateEnablement lists objection responses,
\* best case study, competitor positioning, methodology guidance and the
\* deal-context header in this order, and the header and the separator are always
\* there.
C15_HeaderAfterSections ==
  templateResult.fn = "buildTemplateEnablement" =>
    /\ Ascending(WithoutSeparator(templateResult.text))
    /\ HasHeaderAndSeparator(templateResult.text)

\* C15 as the code has it: the output starts with the deal-context header and the
\* separator, which are always there, and then lists objection responses, best case
\* study, competitor positioning and methodology guidance in this order.
C15_HeaderThenSections ==
  templateResult.fn = "buildTemplateEnablement" =>
    /\ Len(templateResult.text) >= 2
    /\ templateResult.text[1].kind = "header"
    /\ templateResult.text[2].kind = "separator"
    /\ LET sections == SubSeq(templateResult.text, 3, Len(templateResult.text))
       IN /\ \A i \in DOMAIN sections : sections[i].kind \notin {"header", "separator"}
          /\ Ascending(sections)

\* an output with all four sections
C15_Witness ==
  /\ templateResult.fn = "buildTemplateEnablement"
  /\ Len(templateResult.text) = 6
  /\ templateResult.text[3].kind = "objections"
  /\ templateResult.text[4].kind = "case_study"
  /\ templateResult.text[5].kind = "competitor"
  /\ templateResult.text[6].kind = "methodology"

(***************************************************************************)
(* Claims about the prompt builder                                          *)
(***************************************************************************)
FieldMax(field) ==
  CASE field = "deal_name" -> DealNameMax
    [] field = "company_name" -> CompanyNameMax
    [] field = "industry" -> IndustryMax
    [] field = "competitor" -> CompetitorMax
    [] field = "deal_stage" -> DealStageMax
    [] field = "product_interest" -> ProductInterestMax
    [] field = "deal_notes" -> DealNotesMax

\* C16: every deal field value interpolated anywhere into the text of buildPrompt
\* is the truncated one: at each interpolation site it is at most the field's
\* maximum plus the one-character marker long, however long the CRM's value is.
C16_EverySiteTruncated ==
  templateResult.fn = "buildPrompt" =>
    \A i \in DOMAIN templateResult.text :
      LET site == templateResult.text[i]
      IN /\ site.value.length <= FieldMax(site.field) + 1
         /\ site.value = Truncate(templateArgs.deal[site.field], FieldMax(site.field))

(***************************************************************************)
(* Claims about the feedback normaliser and the feedback webhook            *)
(***************************************************************************)
\* the interactive payload of a body, when its payload field holds one: an object,
\* or a string that is the JSON of one
InteractiveOf(body) ==
  IF body.payload.type = "object" THEN body.payload.object
  ELSE IF body.payload.type = "string" /\ JsonParse(body.payload.text).ok
    THEN JsonParse(body.payload.text).value
  ELSE JsonNull

ShapeOrder ==
  << "url_verification", "payload", "event", "callback_query", "message", "call_intel" >>

\* a body matches a shape
MatchesShape(shape, body) ==
  CASE shape = "url_verification" -> body.type = "url_verification" /\ body.challenge # ""
    [] shape = "payload" -> Len(InteractiveOf(body).actions) > 0
    [] shape = "event" ->
         body.event.present /\ body.event.text # "" /\ body.event.thread_ts # ""
    [] shape = "callback_query" ->
         /\ body.callback_query.present /\ body.callback_query.hasData
         /\ \E i \in DOMAIN body.callback_query.data : body.callback_query.data[i] = ":"
    [] shape = "message" ->
         body.message.present /\ body.message.text # "" /\ body.message.replied
    [] shape = "call_intel" -> body.deal_name # "" /\ body.summary # ""

FirstShape(body) ==
  LET matching == { i \in DOMAIN ShapeOrder : MatchesShape(ShapeOrder[i], body) }
  IN IF matching = {} THEN "none"
     ELSE ShapeOrder[CHOOSE i \in matching : \A j \in matching : i <= j]

\* C17: parseFeedback returns the result of the first shape that matches, in the
\* order verification challenge, interactive payload with actions, event with text
\* and thread id, callback query with colon-delimited data, message with text and
\* reply reference, deal_name with summary; a shape that does not match (a payload
\* of malformed JSON, a callback_query without data) is passed over; a challenge
\* is always echoed and gives no entry; null is returned only when nothing matches.
C17_FirstMatchingShape ==
  feedbackReq.pc # "idle" =>
    /\ feedbackReq.result.shape = FirstShape(feedbackReq.body)
    /\ feedbackReq.result.kind =
         CASE FirstShape(feedbackReq.body) = "none" -> "null"
           [] FirstShape(feedbackReq.body) = "url_verification" -> "challenge"
           [] OTHER -> "entry"
    /\ feedbackReq.result.kind = "challenge" =>
         feedbackReq.result.challenge = feedbackReq.body.challenge

\* C18: whatever JSON object is posted to the feedback webhook, the sender gets
\* status 200, the echoed challenge for a verification challenge and an ok
\* acknowledgment otherwise; no payload content, the string "null" included, makes
\* parsing raise or the route answer anything else.
C18_FeedbackAlwaysAnswers200 ==
  feedbackReq.pc # "idle" =>
    /\ feedbackReq.result.kind # "throws"
    /\ feedbackReq.response =
         IF feedbackReq.result.kind = "challenge"
           THEN [status |-> 200, body |-> "challenge"]
           ELSE [status |-> 200, body |-> "ok"]

(***************************************************************************)
(* Claims about the acknowledgment of the CRM webhook                       *)
(***************************************************************************)
Responses(run) == SelectSeq(run.events, LAMBDA step : step = "respond")

\* C19: every CRM webhook request is answered 200 "received" before any parsing,
\* file read or write, platform lookup, generation or send of that request, and
\* the response stays the same whatever the outcome of the continuation: skipped,
\* unresolved, blocked by the gate, failed upstream or delivered.
C19_AcknowledgedBeforeAnyWork ==
  \A r \in DOMAIN runs :
    runs[r].pc # "idle" =>
      /\ runs[r].events[1] = "respond"
      /\ Len(Responses(runs[r])) = 1
      /\ runs[r].response = [status |-> 200, body |-> "received"]

C19_Witness ==
  /\ runs[1].pc = "done" /\ runs[1].out \in {"claude_failed", "send_failed"}
  /\ Len(runs[1].events) > 2
  /\ runs[2].pc = "done" /\ runs[2].out = "delivered"

(***************************************************************************)
(* Claims about the feedback log                                            *)
(***************************************************************************)
IsPrefix(old, new) == Len(old) <= Len(new) /\ SubSeq(new, 1, Len(old)) = old

\* the request has appended a delivery, an outcome
AppendedDelivery(run) == \E i \in DOMAIN run.events : run.events[i] = "appendDelivery"

AppendedFeedback(run) == run.feedback_id # -1

\* C20: under any interleaving of the continuations of concurrent requests, every
\* completed appendDelivery and appendFeedback leaves its entry in the log,
\* entries already there are neither changed nor removed, and the two totals of
\* _meta equal the lengths of the two lists.
C20_AppendsKeepEveryEntry ==
  /\ [](/\ \A r \in DOMAIN runs :
             /\ AppendedDelivery(runs[r]) =>
                  \E i \in DOMAIN feedbackLog.deliveries :
                    /\ feedbackLog.deliveries[i].run = r
                    /\ feedbackLog.deliveries[i].delivery_id = runs[r].delivery_id
             /\ AppendedFeedback(runs[r]) =>
                  \E i \in DOMAIN feedbackLog.feedback :
                    /\ feedbackLog.feedback[i].run = r
                    /\ feedbackLog.feedback[i].id = runs[r].feedback_id
        /\ feedbackLog.meta.total_deliveries = Len(feedbackLog.deliveries)
        /\ feedbackLog.meta.total_feedback = Len(feedbackLog.feedback))
  /\ [][/\ IsPrefix(feedbackLog.deliveries, feedbackLog'.deliveries)
        /\ IsPrefix(feedbackLog.feedback, feedbackLog'.feedback)
        /\ Len(feedbackLog'.deliveries) + Len(feedbackLog'.feedback)
             <= Len(feedbackLog.deliveries) + Len(feedbackLog.feedback) + 1]_vars

\* an outcome has been appended while another request waits for its send to be
\* answered, and that request has appended its delivery afterwards
C20_Witness ==
  /\ Len(feedbackLog.deliveries) = 2
  /\ Len(feedbackLog.feedback) = 1
  /\ \E r, q \in DOMAIN runs :
       /\ AppendedDelivery(runs[r]) /\ AppendedFeedback(runs[q])
       /\ feedbackLog.deliveries[2].run = r
       /\ runs[r].delivery_id < runs[q].feedback_id
       /\ runs[r].delivery_id > feedbackLog.deliveries[1].delivery_id

(***************************************************************************)
(* Claims about what is written to the feedback log                         *)
(***************************************************************************)
\* the positions of the entries a request has written into a list of the log
EntriesOf(list, r) == { i \in DOMAIN list : list[i].run = r }

Has(run, step) == \E i \in DOMAIN run.events : run.events[i] = step

\* C21: exactly one FeedbackEntry is appended for each inbound feedback event that
\* parses to an entry and for each outcome event (a CRM event whose stage is
\* Closed Won or Closed Lost), whether or not a delivery of the log matches it.
C21_OneEntryPerEvent ==
  /\ \A r \in DOMAIN runs :
       runs[r].pc # "idle" /\ ClassifyStage(runs[r].stage) = "outcome" =>
         Cardinality(EntriesOf(feedbackLog.feedback, r)) = 1
  /\ feedbackReq.pc # "idle" /\ feedbackReq.result.kind = "entry" =>
       Cardinality({ i \in DOMAIN feedbackLog.feedback :
                       feedbackLog.feedback[i] = feedbackReq.result.entry }) = 1

\* C22: a DeliveryEntry is appended only for a package that was sent: none when
\* the platform call throws or answers ok = false, exactly one, after the send,
\* when it succeeds.
C22_DeliveryLoggedOnlyWhenSent ==
  \A r \in DOMAIN runs :
    /\ runs[r].out \in {"send_failed", "delivered_not_ok"} =>
         EntriesOf(feedbackLog.deliveries, r) = {}
    /\ runs[r].out = "delivered" => Cardinality(EntriesOf(feedbackLog.deliveries, r)) = 1
    /\ EntriesOf(feedbackLog.deliveries, r) # {} => runs[r].out = "delivered"

\* C23: with an API key configured, a text generation that throws or returns no
\* text ends the continuation as a failure: no template or other content takes
\* its place, nothing is sent, no delivery id is generated, no DeliveryEntry is
\* logged, and the call is not made again.
C23_GenerationFailureEndsRun ==
  /\ [](\A r \in DOMAIN runs :
          runs[r].out = "claude_failed" =>
            /\ runs[r].pc = "done"
            /\ runs[r].generated = "prompt"
            /\ runs[r].sent = "none"
            /\ runs[r].delivery_id = -1
            /\ ~Has(runs[r], "buildTemplateEnablement")
            /\ ~Has(runs[r], "send")
            /\ ~Has(runs[r], "appendDelivery")
            /\ Len(SelectSeq(runs[r].events, LAMBDA step : step = "callClaude")) = 1
            /\ EntriesOf(feedbackLog.deliveries, r) = {})
  /\ [][\A r \in DOMAIN runs :
          runs[r].pc = "claude" /\ runs'[r] # runs[r] /\ runs'[r].generated # "claude" =>
            runs'[r].out = "claude_failed" /\ counter' = counter]_vars

\* a generation has failed with a key configured, and another request has got
\* its text and was delivered
C23_Witness ==
  /\ cfg.anthropicApiKey # ""
  /\ runs[1].out = "claude_failed"
  /\ runs[2].out = "delivered" /\ runs[2].generated = "claude"

(***************************************************************************)
(* Claims about the sync endpoints                                          *)
(***************************************************************************)
HasBearer(req) == req.header.present /\ StartsWith(req.header.text, BearerPrefix)

TokenMatches(req) == req.header.text = BearerPrefix \o << cfg.syncSecret >>

HasShape(req) ==
  /\ req.body.hasMeta
  /\ req.file = "kb" => "case_studies" \in req.body.arrays
  /\ req.file = "rep-directory" => "reps" \in req.body.arrays

\* C24: a PUT to a sync endpoint overwrites its file only if a secret is
\* configured, the bearer token equals it and the body has the required array
\* and _meta; otherwise the file is unchanged and the answer is 503 without a
\* configured secret, else 401 without a bearer header, else 403 for another
\* token, else 400 for an invalid shape.
C24_SyncOverwritesOnlyWhenAuthorised ==
  [][/\ (kb' # kb \/ repDir' # repDir) =>
          /\ cfg.syncSecret # "" /\ TokenMatches(syncReq') /\ HasShape(syncReq')
          /\ syncReq'.status = 200
          /\ syncReq'.file = "kb" => kb' = syncReq'.body.kb /\ repDir' = repDir
          /\ syncReq'.file = "rep-directory" => repDir' = syncReq'.body.reps /\ kb' = kb
     /\ syncReq'.status # 200 => kb' = kb /\ repDir' = repDir
     /\ cfg.syncSecret = "" => syncReq'.status = 503
     /\ cfg.syncSecret # "" /\ ~HasBearer(syncReq') => syncReq'.status = 401
     /\ cfg.syncSecret # "" /\ HasBearer(syncReq') /\ ~TokenMatches(syncReq') =>
          syncReq'.status = 403
     /\ cfg.syncSecret # "" /\ TokenMatches(syncReq') /\ ~HasShape(syncReq') =>
          syncReq'.status = 400]_vars

\* a knowledge base has been pushed, and a later push with another token and a
\* body without _meta has been refused
C24_Witness ==
  /\ kb \in PushedKBs
  /\ syncReq.status = 403
  /\ syncReq.file = "kb"
  /\ ~syncReq.body.hasMeta

(***************************************************************************)
(* Claims about the correlation of outcomes and replies                     *)
(***************************************************************************)
\* the positions of the deliveries logged under a deal name
NamedDeliveries(name) ==
  { i \in DOMAIN feedbackLog.deliveries : feedbackLog.deliveries[i].deal_name = name }

Earliest(positions) == CHOOSE i \in positions : \A j \in positions : i <= j

\* C25: processOutcome correlates an outcome with the deliveries of exactly the
\* same deal name; of several, the earliest logged gives the outcome entry its
\* delivery_id and rep_id and the notification its context, and the notification
\* carries the outcome label and the case-study ids that delivery surfaced.
C25_OutcomeUsesEarliestDelivery ==
  \A r \in DOMAIN runs :
    AppendedFeedback(runs[r]) =>
      /\ NamedDeliveries(runs[r].deal_name) # {}
      /\ LET first == feedbackLog.deliveries[Earliest(NamedDeliveries(runs[r].deal_name))]
             entry == feedbackLog.feedback[CHOOSE i \in EntriesOf(feedbackLog.feedback, r) : TRUE]
         IN /\ entry.source = "outcome"
            /\ entry.deal_name = runs[r].deal_name
            /\ entry.delivery_id = first.delivery_id
            /\ entry.rep_id = first.rep_id
            /\ runs[r].notification.outcome = runs[r].stage
            /\ runs[r].notification.deal_name = runs[r].deal_name
            /\ runs[r].notification.delivery_id = first.delivery_id
            /\ runs[r].notification.case_studies = first.case_studies_surfaced

\* two deliveries of one deal to different reps are in the log, and an outcome of
\* the deal was logged with the first of them
C25_Witness ==
  /\ Len(feedbackLog.deliveries) = 2
  /\ feedbackLog.deliveries[1].deal_name = feedbackLog.deliveries[2].deal_name
  /\ feedbackLog.deliveries[1].rep_id # feedbackLog.deliveries[2].rep_id
  /\ AppendedFeedback(runs[3])
  /\ runs[3].notification.delivery_id = feedbackLog.deliveries[1].delivery_id

\* an outcome is reported under a name that differs only in case from the name
\* of the one delivery logged: nothing is correlated
C25_WitnessOtherCase ==
  /\ Len(feedbackLog.deliveries) = 1
  /\ feedbackLog.deliveries[1].deal_name = "D1"
  /\ \E r \in DOMAIN runs : runs[r].deal_name = "d1" /\ runs[r].out = "no_prior_enablement"

\* C26: a reply of a rep (in the Slack thread of a delivered and logged message,
\* or to a delivered and logged Telegram message) gets a delivery id, prefix plus
\* thread or message identifier, whose exact-match lookup in the delivery log
\* finds the DeliveryEntry of the message replied to.
C26_ReplyFindsItsDelivery ==
  \A r \in DOMAIN runs :
    /\ feedbackReq.pc # "idle"
    /\ Delivered(r)
    /\ feedbackReq.body \in SlackReplies(r) \cup TelegramReplies(r)
    => /\ feedbackReq.result.kind = "entry"
       /\ feedbackReq.result.entry.source = "reply"
       /\ feedbackReq.found # 0
       /\ feedbackLog.deliveries[feedbackReq.found].run = r

(***************************************************************************)
(* Claims about the feedback buttons                                        *)
(***************************************************************************)
\* C27: every FeedbackEntry of source reaction in the log has the value "helpful"
\* or "not_helpful" and a non-empty delivery_id, whatever buttons the rep clicks
\* on delivered messages, the single button acknowledgeCallback leaves included.
C27_ReactionsAreWellFormed ==
  \A i \in DOMAIN feedbackLog.feedback :
    feedbackLog.feedback[i].source = "reaction" =>
      /\ feedbackLog.feedback[i].value \in {"helpful", "not_helpful"}
      /\ feedbackLog.feedback[i].delivery_id # ""

\* the value of the i-th button of a message
ButtonValue(i) == IF i = 1 THEN "helpful" ELSE "not_helpful"

\* the click on the i-th button the formatter put on the message of request r
ClickOn(r, i) ==
  IF runs[r].sent = "slack"
    THEN FeedbackBody("", "",
           PayloadField("string",
             JsonStringify(Interactive(
               << FormatSlackMessage(DeliveryIdText(runs[r].delivery_id)).elements[i] >>,
               "U1")),
             JsonNull),
           NoObject, NoObject, NoObject, "", "")
    ELSE FeedbackBody("", "", NoPayloadField, NoObject,
           CallbackQuery(TRUE,
             FormatTelegramMessage(DeliveryIdChars(runs[r].delivery_id)).inline_keyboard[i],
             "7", MessageId(r)),
           NoObject, "", "")

\* C28: for every delivery id d of generateDeliveryId, a click on a button that
\* formatSlackMessage or formatTelegramMessage built for d parses to a reaction
\* entry whose delivery_id is d and whose value is the button's, so that it
\* matches the DeliveryEntry logged under d.
C28_ButtonRoundTrip ==
  \A r \in DOMAIN runs, i \in 1..2 :
    Delivered(r) /\ feedbackReq.pc # "idle" /\ feedbackReq.body = ClickOn(r, i) =>
      /\ feedbackReq.result.kind = "entry"
      /\ feedbackReq.result.entry.source = "reaction"
      /\ feedbackReq.result.entry.value = ButtonValue(i)
      /\ feedbackReq.result.entry.delivery_id = DeliveryIdText(runs[r].delivery_id)
      /\ \E k \in DOMAIN feedbackLog.deliveries :
           /\ feedbackLog.deliveries[k].run = r
           /\ DeliveryIdText(feedbackLog.deliveries[k].delivery_id)
                = feedbackReq.result.entry.delivery_id
      /\ feedbackLog.feedback[Len(feedbackLog.feedback)] = feedbackReq.result.entry

\* the second button of the second Telegram message delivered was clicked
C28_Witness ==
  /\ Delivered(2)
  /\ feedbackReq.route = "telegram"
  /\ feedbackReq.body = ClickOn(2, 2)
  /\ feedbackReq.result.entry.value = "not_helpful"
  /\ feedbackReq.result.entry.delivery_id = DeliveryIdText(runs[2].delivery_id)

\* the first button of a Slack message was clicked
C28_WitnessSlack ==
  /\ Delivered(1)
  /\ feedbackReq.route = "feedback"
  /\ feedbackReq.body = ClickOn(1, 1)
  /\ feedbackReq.result.entry.value = "helpful"

(***************************************************************************)
(* Claims about what a delivery records and surfaces                        *)
(***************************************************************************)
Contains(list, x) == \E i \in DOMAIN list : list[i] = x

\* C29: the DeliveryEntry of a template-composed delivery records what the rep
\* was shown: competitors_surfaced holds the id of the positioning entry the
\* template selected (by competitor name, whatever the case) and is empty exactly
\* when no positioning was shown; case_studies_surfaced holds the id of the case
\* study selected.
C29_EntryRecordsWhatWasShown ==
  templateResult.fn = "deliverTemplate" =>
    /\ templateResult.positioning # NoPositioning =>
         Contains(templateResult.entry.competitors_surfaced, templateResult.positioning.id)
    /\ (templateResult.entry.competitors_surfaced = <<>>)
         <=> ~Contains(templateResult.text, Block("competitor", "COMPETITOR POSITIONING"))
    /\ templateResult.caseStudy # NoCaseStudy =>
         Contains(templateResult.entry.case_studies_surfaced, templateResult.caseStudy.id)

\* C30: every objection findRelevantObjections places in the template either has
\* no competitor or has the deal's competitor, whatever the case: an objection
\* against another competitor is never surfaced, also when its stages match.
C30_NoObjectionOfAnotherCompetitor ==
  templateResult.fn = "findRelevantObjections" =>
    \A i \in DOMAIN templateResult.objections :
      \/ templateResult.objections[i].competitor = <<>>
      \/ ToLowerCase(templateResult.objections[i].competitor)
           = ToLowerCase(templateArgs.deal.competitor)

====
